---- MODULE Spec2Model ----
(***************************************************************************)
(* jpegparse (gst/jpegformat/gstjpegparse.c): the element that splits a    *)
(* byte stream of concatenated JPEG images into frames and derives the     *)
(* caps (width, height, sof-marker, colorspace, sampling, framerate,       *)
(* pixel-aspect-ratio) and tags of each frame.                             *)
(*                                                                         *)
(* The model is byte exact: the stream is a sequence of octets, the        *)
(* parser's fields are those of GstJpegParse, and one call of              *)
(* gst_jpeg_parse_handle_frame is one operator over (fields, buffer).      *)
(* GstBaseParse (the adapter, skipping, finishing a frame) and the         *)
(* codecparsers library (gst_jpeg_parse, the frame header reader) are not  *)
(* part of the element's source file; they are modelled from their         *)
(* documented contract.                                                    *)
(***************************************************************************)
EXTENDS Integers, Sequences, FiniteSets, TLC

(***************************************************************************)
(* Marker codes (ISO/IEC 10918-1 table B.1), as used by the dispatch.      *)
(***************************************************************************)
GST_JPEG_MARKER_SOF_MIN == 192
GST_JPEG_MARKER_SOF_MAX == 207
GST_JPEG_MARKER_DHT == 196
GST_JPEG_MARKER_DAC == 204
GST_JPEG_MARKER_RST_MIN == 208
GST_JPEG_MARKER_RST_MAX == 215
GST_JPEG_MARKER_SOI == 216
GST_JPEG_MARKER_EOI == 217
GST_JPEG_MARKER_SOS == 218
GST_JPEG_MARKER_APP0 == 224
GST_JPEG_MARKER_APP1 == 225
GST_JPEG_MARKER_APP14 == 238
GST_JPEG_MARKER_COM == 254

(* enum ParserState: the bits of parse->state, as a set of flag names *)
GST_JPEG_PARSER_STATE_GOT_SOI == "GOT_SOI"
GST_JPEG_PARSER_STATE_GOT_SOF == "GOT_SOF"
GST_JPEG_PARSER_STATE_GOT_SOS == "GOT_SOS"
GST_JPEG_PARSER_STATE_GOT_JFIF == "GOT_JFIF"
GST_JPEG_PARSER_STATE_GOT_ADOBE == "GOT_ADOBE"
GST_JPEG_PARSER_STATE_VALID_PICTURE ==
  { GST_JPEG_PARSER_STATE_GOT_SOI, GST_JPEG_PARSER_STATE_GOT_SOF,
    GST_JPEG_PARSER_STATE_GOT_SOS }

(* (state & ref_state) == ref_state *)
valid_state(state, ref_state) == ref_state \subseteq state

(***************************************************************************)
(* Bytes and buffers.  A buffer is a sequence of octets; C offsets are     *)
(* 0-based.                                                                *)
(***************************************************************************)
At(buf, i) == buf[i + 1]

Slice(buf, from, to) == SubSeq(buf, from + 1, to)

U16(buf, i) == At(buf, i) * 256 + At(buf, i + 1)

SetMin(S) == CHOOSE x \in S : \A y \in S : x <= y

(***************************************************************************)
(* The marker scanner of the codecparsers library.  A marker is 0xFF       *)
(* followed by a byte that is neither 0x00 nor 0xFF; SOI, EOI and RSTn     *)
(* stand alone, every other marker carries a 2-byte big-endian length.     *)
(* The scanner fails when no marker lies at or after offset, and when the  *)
(* marker's length field is not in the buffer yet (it has no size to       *)
(* report).  seg.offset is the offset just behind the two marker bytes.    *)
(***************************************************************************)
IsMarkerAt(buf, i) ==
  /\ i + 1 < Len(buf)
  /\ At(buf, i) = 255
  /\ At(buf, i + 1) \notin {0, 255}

Standalone(marker) ==
  \/ marker = GST_JPEG_MARKER_SOI
  \/ marker = GST_JPEG_MARKER_EOI
  \/ (marker >= GST_JPEG_MARKER_RST_MIN /\ marker <= GST_JPEG_MARKER_RST_MAX)

NoSegment == [found |-> FALSE, marker |-> 0, offset |-> 0, size |-> 0]

\* jpeg_parse_to_next_marker: the offset of the first marker at or after i,
\* or -1 when the buffer holds none
RECURSIVE NextMarker(_, _)
NextMarker(buf, i) ==
  IF ~(i + 1 < Len(buf)) THEN -1
  ELSE IF IsMarkerAt(buf, i) THEN i
  ELSE NextMarker(buf, i + 1)

\* the segment whose marker is at offset i
SegmentAt(buf, i, m) ==
  IF Standalone(m)
  THEN [found |-> TRUE, marker |-> m, offset |-> i + 2, size |-> 0]
  ELSE IF i + 3 < Len(buf)
       THEN [found |-> TRUE, marker |-> m, offset |-> i + 2,
             size |-> U16(buf, i + 2)]
       ELSE NoSegment

Located(buf, i) == IF i < 0 THEN NoSegment ELSE SegmentAt(buf, i, At(buf, i + 1))

gst_jpeg_parse(buf, offset) ==
  IF offset >= Len(buf) THEN NoSegment ELSE Located(buf, NextMarker(buf, offset))

(***************************************************************************)
(* GstByteReader over a segment: the reader covers the bytes               *)
(* [seg.offset, seg.offset + seg.size) of the buffer; positions below are  *)
(* relative to seg.offset.                                                 *)
(***************************************************************************)
\* gst_byte_reader_get_string_utf8: the position of the terminating NUL at
\* or after pos, or -1 when the reader holds none
NulAt(buf, seg, pos) ==
  LET z == { k \in pos .. (seg.size - 1) : At(buf, seg.offset + k) = 0 } IN
  IF z = {} THEN -1 ELSE SetMin(z)

IdString(buf, seg, pos, nul) == Slice(buf, seg.offset + pos, seg.offset + nul)

HasSuffix(s, suffix) ==
  /\ Len(s) >= Len(suffix)
  /\ SubSeq(s, Len(s) - Len(suffix) + 1, Len(s)) = suffix

HasPrefix(s, prefix) ==
  /\ Len(s) >= Len(prefix)
  /\ SubSeq(s, 1, Len(prefix)) = prefix

Str_JFIF == <<74, 70, 73, 70>>
Str_JFXX == <<74, 70, 88, 88>>
Str_Exif == <<69, 120, 105, 102>>
Str_Adobe == <<65, 100, 111, 98, 101>>
\* "http://ns.adobe.com/xap/1.0/"
Str_XMP == <<104, 116, 116, 112, 58, 47, 47, 110, 115, 46, 97, 100, 111, 98,
             101, 46, 99, 111, 109, 47, 120, 97, 112, 47, 49, 46, 48, 47>>

(***************************************************************************)
(* Colorspace and sampling (GstJPEG2000Colorspace / GstJPEG2000Sampling,   *)
(* extended by the element with CMYK and YCCK).                            *)
(***************************************************************************)
\* a faulty variant: the table with an entry for 4:4:0
subsampling_map_with_440 ==
  << [h |-> <<1, 1, 1>>, v |-> <<1, 1, 1>>, sampling |-> "YBR444"],
     [h |-> <<2, 2, 2>>, v |-> <<1, 1, 1>>, sampling |-> "YBR444"],
     [h |-> <<3, 3, 3>>, v |-> <<1, 1, 1>>, sampling |-> "YBR444"],
     [h |-> <<1, 1, 1>>, v |-> <<2, 2, 2>>, sampling |-> "YBR444"],
     [h |-> <<1, 1, 1>>, v |-> <<3, 3, 3>>, sampling |-> "YBR444"],
     [h |-> <<1, 1, 1>>, v |-> <<2, 1, 1>>, sampling |-> "YBR440"],
     [h |-> <<2, 1, 1>>, v |-> <<1, 1, 1>>, sampling |-> "YBR422"],
     [h |-> <<2, 1, 1>>, v |-> <<2, 2, 2>>, sampling |-> "YBR422"],
     [h |-> <<4, 2, 2>>, v |-> <<1, 1, 1>>, sampling |-> "YBR422"],
     [h |-> <<2, 1, 1>>, v |-> <<2, 1, 1>>, sampling |-> "YBR420"],
     [h |-> <<4, 1, 1>>, v |-> <<1, 1, 1>>, sampling |-> "YBR411"],
     [h |-> <<4, 1, 1>>, v |-> <<2, 1, 1>>, sampling |-> "YBR410"] >>

subsampling_map ==
  << [h |-> <<1, 1, 1>>, v |-> <<1, 1, 1>>, sampling |-> "YBR444"],
     [h |-> <<2, 2, 2>>, v |-> <<1, 1, 1>>, sampling |-> "YBR444"],
     [h |-> <<3, 3, 3>>, v |-> <<1, 1, 1>>, sampling |-> "YBR444"],
     [h |-> <<1, 1, 1>>, v |-> <<2, 2, 2>>, sampling |-> "YBR444"],
     [h |-> <<1, 1, 1>>, v |-> <<3, 3, 3>>, sampling |-> "YBR444"],
     [h |-> <<2, 1, 1>>, v |-> <<1, 1, 1>>, sampling |-> "YBR422"],
     [h |-> <<2, 1, 1>>, v |-> <<2, 2, 2>>, sampling |-> "YBR422"],
     [h |-> <<4, 2, 2>>, v |-> <<1, 1, 1>>, sampling |-> "YBR422"],
     [h |-> <<2, 1, 1>>, v |-> <<2, 1, 1>>, sampling |-> "YBR420"],
     [h |-> <<4, 1, 1>>, v |-> <<1, 1, 1>>, sampling |-> "YBR411"],
     [h |-> <<4, 1, 1>>, v |-> <<2, 1, 1>>, sampling |-> "YBR410"] >>

\* the first entry of subsampling_map with the header's factors, else NONE
yuv_sampling(hdr) ==
  IF hdr.num_components # 3 THEN "NONE"
  ELSE LET h == [k \in 1..3 |-> hdr.components[k].horizontal_factor]
           v == [k \in 1..3 |-> hdr.components[k].vertical_factor]
           hit == { i \in 1..Len(subsampling_map) :
                      subsampling_map[i].h = h /\ subsampling_map[i].v = v }
       IN IF hit = {} THEN "NONE" ELSE subsampling_map[SetMin(hit)].sampling

(***************************************************************************)
(* The frame header reader of the codecparsers library: Lf(2) P(1) Y(2)    *)
(* X(2) Nf(1), then per component C(1) H:V(1) Tq(1).  It fails when the    *)
(* segment is too short for the fixed part or for the component table.     *)
(***************************************************************************)
NoFrameHdr == [ok |-> FALSE, width |-> 0, height |-> 0, num_components |-> 0,
               components |-> <<>>]

gst_jpeg_segment_parse_frame_header(buf, seg) ==
  IF seg.size < 8 THEN NoFrameHdr
  ELSE LET o == seg.offset
           n == At(buf, o + 7)
       IN IF seg.size - 8 < 3 * n THEN NoFrameHdr
          ELSE [ok |-> TRUE,
                height |-> U16(buf, o + 3),
                width |-> U16(buf, o + 5),
                num_components |-> n,
                components |->
                  [k \in 1..n |->
                     [identifier |-> At(buf, o + 8 + 3 * (k - 1)),
                      horizontal_factor |-> At(buf, o + 9 + 3 * (k - 1)) \div 16,
                      vertical_factor |-> At(buf, o + 9 + 3 * (k - 1)) % 16]]]

(***************************************************************************)
(* gst_jpeg_parse_sof: an interpreter returns [ok, p]: its gboolean and    *)
(* the parser's fields after it.                                           *)
(***************************************************************************)
\* a faulty variant: the Adobe header is looked at before the JFIF header
SofColor3AdobeFirst(p, hdr) ==
  IF valid_state(p.state, {GST_JPEG_PARSER_STATE_GOT_ADOBE})
  THEN IF p.adobe_transform = 0
       THEN [colorspace |-> "RGB", sampling |-> "RGB"]
       ELSE [colorspace |-> "YUV", sampling |-> yuv_sampling(hdr)]
  ELSE IF valid_state(p.state, {GST_JPEG_PARSER_STATE_GOT_JFIF})
       THEN [colorspace |-> "YUV", sampling |-> yuv_sampling(hdr)]
       ELSE IF hdr.components[1].identifier = 82
               /\ hdr.components[2].identifier = 71
               /\ hdr.components[3].identifier = 66
            THEN [colorspace |-> "RGB", sampling |-> "RGB"]
            ELSE [colorspace |-> "YUV", sampling |-> yuv_sampling(hdr)]

\* a faulty variant: the JFIF header is not looked at
SofColor3IgnoresJfif(p, hdr) ==
  IF valid_state(p.state, {GST_JPEG_PARSER_STATE_GOT_ADOBE})
  THEN IF p.adobe_transform = 0
       THEN [colorspace |-> "RGB", sampling |-> "RGB"]
       ELSE [colorspace |-> "YUV", sampling |-> yuv_sampling(hdr)]
  ELSE IF hdr.components[1].identifier = 82
          /\ hdr.components[2].identifier = 71
          /\ hdr.components[3].identifier = 66
       THEN [colorspace |-> "RGB", sampling |-> "RGB"]
       ELSE [colorspace |-> "YUV", sampling |-> yuv_sampling(hdr)]

SofColor3(p, hdr) ==
  IF valid_state(p.state, {GST_JPEG_PARSER_STATE_GOT_JFIF})
  THEN [colorspace |-> "YUV", sampling |-> yuv_sampling(hdr)]
  ELSE IF valid_state(p.state, {GST_JPEG_PARSER_STATE_GOT_ADOBE})
       THEN IF p.adobe_transform = 0
            THEN [colorspace |-> "RGB", sampling |-> "RGB"]
            ELSE [colorspace |-> "YUV", sampling |-> yuv_sampling(hdr)]
       ELSE LET cid0 == hdr.components[1].identifier
                cid1 == hdr.components[2].identifier
                cid2 == hdr.components[3].identifier
            IN IF cid0 = 1 /\ cid1 = 2 /\ cid2 = 3
               THEN [colorspace |-> "YUV", sampling |-> yuv_sampling(hdr)]
               ELSE IF cid0 = 82 /\ cid1 = 71 /\ cid2 = 66
                    THEN [colorspace |-> "RGB", sampling |-> "RGB"]
                    ELSE [colorspace |-> "YUV", sampling |-> yuv_sampling(hdr)]

\* a faulty variant: an unknown Adobe transform is taken for "no transform"
SofColor4UnknownIsCmyk(p) ==
  IF valid_state(p.state, {GST_JPEG_PARSER_STATE_GOT_ADOBE})
     /\ p.adobe_transform = 2
  THEN [colorspace |-> "YCCK", sampling |-> "NONE"]
  ELSE [colorspace |-> "CMYK", sampling |-> "NONE"]

SofColor4(p) ==
  IF valid_state(p.state, {GST_JPEG_PARSER_STATE_GOT_ADOBE})
  THEN IF p.adobe_transform = 0
       THEN [colorspace |-> "CMYK", sampling |-> "NONE"]
       ELSE [colorspace |-> "YCCK", sampling |-> "NONE"]
  ELSE [colorspace |-> "CMYK", sampling |-> "NONE"]

\* a faulty variant: one component is gray only without JFIF and Adobe
\* headers, and an unknown component count is taken for gray
SofColorGrayByDefault(p, hdr) ==
  CASE hdr.num_components = 1 /\ p.state = {GST_JPEG_PARSER_STATE_GOT_SOI} ->
         [colorspace |-> "GRAY", sampling |-> "GRAYSCALE"]
    [] hdr.num_components = 1 -> [colorspace |-> "YUV", sampling |-> "NONE"]
    [] hdr.num_components = 3 -> SofColor3(p, hdr)
    [] hdr.num_components = 4 -> SofColor4(p)
    [] OTHER -> [colorspace |-> "GRAY", sampling |-> "GRAYSCALE"]

SofColor(p, hdr) ==
  CASE hdr.num_components = 1 -> [colorspace |-> "GRAY", sampling |-> "GRAYSCALE"]
    [] hdr.num_components = 3 -> SofColor3(p, hdr)
    [] hdr.num_components = 4 -> SofColor4(p)
    [] OTHER -> [colorspace |-> "NONE", sampling |-> "NONE"]

gst_jpeg_parse_sof(p, buf, seg) ==
  LET hdr == gst_jpeg_segment_parse_frame_header(buf, seg) IN
  IF ~hdr.ok THEN [ok |-> FALSE, p |-> p]
  ELSE LET c == SofColor(p, hdr) IN
       [ok |-> TRUE,
        p |-> [p EXCEPT !.width = hdr.width, !.height = hdr.height,
                        !.colorspace = c.colorspace,
                        !.sampling = c.sampling]]

(***************************************************************************)
(* Tags.  parse->tags is a GstTagList or NULL; the model keeps one record  *)
(* with an absent value per tag (an empty text, -1), NULL being the record *)
(* with every tag absent.  Pixel densities are kept in 1/100 ppi so that   *)
(* the cm conversion (x 2.54) stays exact.                                 *)
(***************************************************************************)
NoTags == [comment |-> <<>>, hppi |-> -1, vppi |-> -1, exif |-> <<>>, xmp |-> <<>>]

\* gst_tag_list_insert (into, from, GST_TAG_MERGE_REPLACE)
TagInsertReplace(into, from) ==
  [comment |-> IF from.comment # <<>> THEN from.comment ELSE into.comment,
   hppi |-> IF from.hppi # -1 THEN from.hppi ELSE into.hppi,
   vppi |-> IF from.vppi # -1 THEN from.vppi ELSE into.vppi,
   exif |-> IF from.exif # <<>> THEN from.exif ELSE into.exif,
   xmp |-> IF from.xmp # <<>> THEN from.xmp ELSE into.xmp]

(***************************************************************************)
(* gst_jpeg_parse_app0                                                     *)
(***************************************************************************)
App0Jfif(p, buf, seg, pos) ==
  \* pos: the reader's position behind the identifier's NUL
  LET p1 == [p EXCEPT !.state = @ \cup {GST_JPEG_PARSER_STATE_GOT_JFIF}]
      o == seg.offset
      unit == At(buf, o + pos + 2)
      xd == U16(buf, o + pos + 3)
      yd == U16(buf, o + pos + 5)
  IN \* version skipped unchecked; units, densities, thumbnail read checked
     IF pos + 9 > seg.size THEN [ok |-> FALSE, p |-> p1]
     ELSE IF unit = 0
          THEN [ok |-> TRUE, p |-> [p1 EXCEPT !.x_density = xd, !.y_density = yd]]
          ELSE IF unit = 1 \/ unit = 2
               THEN LET f == IF unit = 2 THEN 254 ELSE 100 IN
                    [ok |-> TRUE,
                     p |-> [p1 EXCEPT !.tags = [@ EXCEPT !.hppi = xd * f,
                                                         !.vppi = yd * f]]]
               ELSE [ok |-> TRUE, p |-> p1]

\* a faulty variant: no minimum size, the identifier is read at once
gst_jpeg_parse_app0_unsized(p, buf, seg) ==
  LET nul == NulAt(buf, seg, 2) IN
  IF nul < 0 THEN [ok |-> FALSE, p |-> p]
  ELSE LET id_str == IdString(buf, seg, 2, nul) IN
       IF ~valid_state(p.state, {GST_JPEG_PARSER_STATE_GOT_JFIF})
          /\ id_str = Str_JFIF
       THEN App0Jfif(p, buf, seg, nul + 1)
       ELSE IF id_str = Str_JFXX
            THEN [ok |-> valid_state(p.state, {GST_JPEG_PARSER_STATE_GOT_JFIF}),
                  p |-> p]
            ELSE [ok |-> FALSE, p |-> p]

gst_jpeg_parse_app0(p, buf, seg) ==
  IF seg.size < 14 THEN [ok |-> FALSE, p |-> p]
  ELSE LET nul == NulAt(buf, seg, 2) IN
       IF nul < 0 THEN [ok |-> FALSE, p |-> p]
       ELSE LET id_str == IdString(buf, seg, 2, nul) IN
            IF ~valid_state(p.state, {GST_JPEG_PARSER_STATE_GOT_JFIF})
               /\ id_str = Str_JFIF
            THEN App0Jfif(p, buf, seg, nul + 1)
            ELSE IF id_str = Str_JFXX
                 THEN [ok |-> valid_state(p.state, {GST_JPEG_PARSER_STATE_GOT_JFIF}),
                       p |-> p]
                 ELSE [ok |-> FALSE, p |-> p]

(***************************************************************************)
(* gst_jpeg_parse_app1.  The Exif and XMP readers of the tag library turn  *)
(* the payload into a tag list or NULL; the model keeps the payload as the *)
(* tag's value and lets the reader reject a payload without a TIFF byte    *)
(* order mark ("II" / "MM"), respectively an empty packet.                 *)
(***************************************************************************)
gst_tag_list_from_exif_buffer_with_tiff_header(data) ==
  IF Len(data) >= 2 /\ SubSeq(data, 1, 2) \in {<<73, 73>>, <<77, 77>>}
  THEN [NoTags EXCEPT !.exif = data]
  ELSE NoTags

gst_tag_list_from_xmp_buffer(data) ==
  IF Len(data) > 0 THEN [NoTags EXCEPT !.xmp = data] ELSE NoTags

\* a faulty variant: an identifier that is neither Exif nor XMP is a failure
gst_jpeg_parse_app1_strict(p, buf, seg) ==
  LET nul == NulAt(buf, seg, 2) IN
  IF nul < 0 THEN [ok |-> FALSE, p |-> p]
  ELSE LET id_str == IdString(buf, seg, 2, nul)
           pos == nul + 1
           end == seg.offset + seg.size
       IN IF HasSuffix(id_str, Str_Exif)
          THEN IF pos + 1 > seg.size THEN [ok |-> FALSE, p |-> p]
               ELSE [ok |-> TRUE,
                     p |-> [p EXCEPT !.tags = TagInsertReplace(@,
                              gst_tag_list_from_exif_buffer_with_tiff_header(
                                Slice(buf, seg.offset + pos + 1, end)))]]
          ELSE IF HasSuffix(id_str, Str_XMP)
               THEN [ok |-> TRUE,
                     p |-> [p EXCEPT !.tags = TagInsertReplace(@,
                              gst_tag_list_from_xmp_buffer(
                                Slice(buf, seg.offset + pos, end)))]]
               ELSE [ok |-> FALSE, p |-> p]

gst_jpeg_parse_app1(p, buf, seg) ==
  LET nul == NulAt(buf, seg, 2) IN
  IF nul < 0 THEN [ok |-> FALSE, p |-> p]
  ELSE LET id_str == IdString(buf, seg, 2, nul)
           pos == nul + 1
           end == seg.offset + seg.size
       IN IF HasSuffix(id_str, Str_Exif)
          THEN \* skip NUL only for Exif
               IF pos + 1 > seg.size THEN [ok |-> FALSE, p |-> p]
               ELSE [ok |-> TRUE,
                     p |-> [p EXCEPT !.tags = TagInsertReplace(@,
                              gst_tag_list_from_exif_buffer_with_tiff_header(
                                Slice(buf, seg.offset + pos + 1, end)))]]
          ELSE IF HasSuffix(id_str, Str_XMP)
               THEN [ok |-> TRUE,
                     p |-> [p EXCEPT !.tags = TagInsertReplace(@,
                              gst_tag_list_from_xmp_buffer(
                                Slice(buf, seg.offset + pos, end)))]]
               ELSE [ok |-> TRUE, p |-> p]

(***************************************************************************)
(* gst_jpeg_parse_app14                                                    *)
(***************************************************************************)
gst_jpeg_parse_app14(p, buf, seg) ==
  IF seg.size < 12 THEN [ok |-> FALSE, p |-> p]
  ELSE LET nul == NulAt(buf, seg, 2) IN
       IF nul < 0 THEN [ok |-> FALSE, p |-> p]
       ELSE LET id_str == IdString(buf, seg, 2, nul)
                pos == nul + 1
            IN IF ~HasPrefix(id_str, Str_Adobe) THEN [ok |-> FALSE, p |-> p]
               ELSE \* skip version and flags
                    IF pos + 6 > seg.size THEN [ok |-> FALSE, p |-> p]
                    ELSE LET p1 == [p EXCEPT !.state =
                                      @ \cup {GST_JPEG_PARSER_STATE_GOT_ADOBE}]
                         IN \* transform bit might not exist
                            IF pos + 7 > seg.size THEN [ok |-> TRUE, p |-> p1]
                            ELSE [ok |-> TRUE,
                                  p |-> [p1 EXCEPT !.adobe_transform =
                                           At(buf, seg.offset + pos + 6)]]

(***************************************************************************)
(* gst_jpeg_parse_com.  get_utf8_from_data hands the text to the tag       *)
(* library's freeform decoder: trailing NULs are chopped, an empty text    *)
(* gives NULL, text that is valid UTF-8 is kept as it is, and any other    *)
(* text is decoded by the fallback charset (ISO-8859-1), two UTF-8 bytes   *)
(* per high byte.                                                          *)
(***************************************************************************)
RECURSIVE ChopNul(_)
ChopNul(data) ==
  IF Len(data) > 0 /\ data[Len(data)] = 0
  THEN ChopNul(SubSeq(data, 1, Len(data) - 1))
  ELSE data

RECURSIVE Latin1ToUtf8(_)
Latin1ToUtf8(data) ==
  IF data = <<>> THEN <<>>
  ELSE LET b == Head(data) IN
       (IF b < 128 THEN <<b>> ELSE <<192 + (b \div 64), 128 + (b % 64)>>)
       \o Latin1ToUtf8(Tail(data))

\* g_utf8_validate, as far as the lengths of the sequences go
RECURSIVE IsUtf8(_)
IsUtf8(data) ==
  IF data = <<>> THEN TRUE
  ELSE LET b == Head(data)
           n == IF b < 128 THEN 1
                ELSE IF b >= 194 /\ b <= 223 THEN 2
                ELSE IF b >= 224 /\ b <= 239 THEN 3
                ELSE IF b >= 240 /\ b <= 244 THEN 4
                ELSE 0
       IN /\ b # 0
          /\ n > 0
          /\ Len(data) >= n
          /\ \A k \in 2..n : data[k] >= 128 /\ data[k] <= 191
          /\ IsUtf8(SubSeq(data, n + 1, Len(data)))

get_utf8_from_data(data) ==
  IF IsUtf8(ChopNul(data)) THEN ChopNul(data) ELSE Latin1ToUtf8(ChopNul(data))

gst_jpeg_parse_com(p, buf, seg) ==
  LET data == Slice(buf, seg.offset + 2, seg.offset + seg.size)
      comment == get_utf8_from_data(data)
  IN IF comment # <<>>
     THEN [ok |-> TRUE, p |-> [p EXCEPT !.tags = [@ EXCEPT !.comment = comment]]]
     ELSE [ok |-> TRUE, p |-> p]

(***************************************************************************)
(* gst_jpeg_parse_init + gst_jpeg_parse_start, gst_jpeg_parse_reset        *)
(***************************************************************************)
NoCaps == <<>>

\* faulty variants: the flags, or the densities, survive the reset
gst_jpeg_parse_reset_keeps_flags(p) ==
  [p EXCEPT !.width = 0, !.height = 0, !.last_offset = 0,
            !.sof = -1, !.adobe_transform = 0, !.x_density = 0,
            !.y_density = 0, !.tags = NoTags]

gst_jpeg_parse_reset_keeps_density(p) ==
  [p EXCEPT !.width = 0, !.height = 0, !.last_offset = 0, !.state = {},
            !.sof = -1, !.adobe_transform = 0, !.tags = NoTags]

gst_jpeg_parse_reset(p) ==
  [p EXCEPT !.width = 0, !.height = 0, !.last_offset = 0, !.state = {},
            !.sof = -1, !.adobe_transform = 0, !.x_density = 0,
            !.y_density = 0, !.tags = NoTags]

gst_jpeg_parse_start ==
  gst_jpeg_parse_reset(
    [width |-> 0, height |-> 0, last_offset |-> 0, state |-> {}, sof |-> -1,
     adobe_transform |-> 0, x_density |-> 0, y_density |-> 0, tags |-> NoTags,
     colorspace |-> "NONE", sampling |-> "NONE", prev_caps |-> NoCaps,
     framerate |-> <<0, 1>>])

\* a faulty variant: width and height change places
BuildCapsSwapped(p) ==
  [width |-> IF p.width > 0 THEN p.height ELSE -1,
   height |-> IF p.width > 0 THEN p.width ELSE -1,
   sof_marker |-> IF p.sof >= 0 THEN p.sof ELSE -1,
   colorspace |-> p.colorspace,
   sampling |-> p.sampling,
   framerate |-> p.framerate,
   pixel_aspect_ratio |-> IF p.x_density > 0 /\ p.y_density > 0
                          THEN <<p.x_density, p.y_density>> ELSE <<>>]

(***************************************************************************)
(* gst_jpeg_parse_set_new_caps: the caps built from the fields; a field    *)
(* that is left out of the caps is -1, "NONE" or the empty fraction.       *)
(***************************************************************************)
BuildCaps(p) ==
  [width |-> IF p.width > 0 THEN p.width ELSE -1,
   height |-> IF p.width > 0 THEN p.height ELSE -1,
   sof_marker |-> IF p.sof >= 0 THEN p.sof ELSE -1,
   colorspace |-> p.colorspace,
   sampling |-> p.sampling,
   framerate |-> p.framerate,
   pixel_aspect_ratio |-> IF p.x_density > 0 /\ p.y_density > 0
                          THEN <<p.x_density, p.y_density>> ELSE <<>>]

\* a faulty variant: the caps are set for every frame
gst_jpeg_parse_set_new_caps_always(p) ==
  [p |-> [p EXCEPT !.prev_caps = <<BuildCaps(p)>>], caps |-> BuildCaps(p),
   notified |-> TRUE]

gst_jpeg_parse_set_new_caps(p) ==
  LET caps == BuildCaps(p) IN
  IF p.prev_caps # NoCaps /\ caps = p.prev_caps[1]
  THEN [p |-> p, caps |-> caps, notified |-> FALSE]
  ELSE [p |-> [p EXCEPT !.prev_caps = <<caps>>], caps |-> caps, notified |-> TRUE]

\* a faulty variant: the frame flagged invalid is dropped
gst_jpeg_parse_push_frame_drops(p, size) ==
  LET c == gst_jpeg_parse_set_new_caps(p)
      invalid == ~valid_state(p.state, GST_JPEG_PARSER_STATE_VALID_PICTURE)
  IN [p |-> c.p, ret |-> "OK", framed |-> ~invalid, size |-> size,
      caps |-> c.caps, notified |-> c.notified, invalid |-> invalid]

(***************************************************************************)
(* gst_jpeg_parse_push_frame: the caps are set (the source pad accepts     *)
(* them), a frame lacking SOI, SOF or SOS only draws a warning, and the    *)
(* frame of `size` bytes is finished.                                      *)
(***************************************************************************)
gst_jpeg_parse_push_frame(p, size) ==
  LET c == gst_jpeg_parse_set_new_caps(p) IN
  [p |-> c.p, ret |-> "OK", framed |-> TRUE, size |-> size, caps |-> c.caps,
   notified |-> c.notified,
   invalid |-> ~valid_state(p.state, GST_JPEG_PARSER_STATE_VALID_PICTURE)]

(***************************************************************************)
(* gst_jpeg_parse_handle_frame.  One call is HandleFrame(p, pending, buf): *)
(* p the parser's fields, pending the tags the base class holds for the    *)
(* next frame (gst_base_parse_merge_tags), buf the mapped buffer.  The     *)
(* result carries the fields after the call, the GstFlowReturn, *skipsize, *)
(* the frame finished (if any), the warnings posted and the segments       *)
(* dispatched, in order.                                                   *)
(***************************************************************************)
NoFrame == [framed |-> FALSE, size |-> 0, caps |-> BuildCaps(gst_jpeg_parse_start),
            notified |-> FALSE, invalid |-> FALSE]

Outcome(cx, ret, skipsize, f) ==
  [p |-> cx.p, pending |-> cx.pending, ret |-> ret, skipsize |-> skipsize,
   framed |-> f.framed, size |-> f.size, caps |-> f.caps,
   notified |-> f.notified, invalid |-> f.invalid,
   warn |-> cx.warn, disp |-> cx.disp]

\* offset = parse->last_offset; if (offset > 0) offset -= 1;
ResumeOffset(last_offset) == IF last_offset > 0 THEN last_offset - 1 ELSE last_offset

\* a faulty variant: an interpreter's failure abandons the frame
InterpretedAborts(cx, r, what) ==
  IF r.ok THEN [cx EXCEPT !.p = r.p]
  ELSE [cx EXCEPT !.p = gst_jpeg_parse_reset(r.p), !.warn = @ \cup {what}]

\* an interpreter's result folded into the call: a failure posts a warning
Interpreted(cx, r, what) ==
  [cx EXCEPT !.p = r.p, !.warn = IF r.ok THEN @ ELSE @ \cup {what}]

\* case GST_JPEG_MARKER_SOI: the flag is set and the pending tags are unset
DispatchSoi(cx) ==
  [cx EXCEPT !.p.state = @ \cup {GST_JPEG_PARSER_STATE_GOT_SOI},
             !.pending = NoTags]

\* a faulty variant: the bytes before the SOI are kept
SoiNeverSkips(offset) == FALSE

\* remove all previous bytes: if (offset > 2), offset being behind the SOI
SoiSkips(offset) == offset > 2

\* a faulty variant: the frame is pushed without the reset
DispatchEoiNoReset(cx, seg) ==
  LET pend == IF cx.p.tags # NoTags THEN cx.p.tags ELSE cx.pending
      f == gst_jpeg_parse_push_frame(cx.p, seg.offset)
  IN Outcome([cx EXCEPT !.p = f.p, !.pending = pend], f.ret, 0, f)

\* a faulty variant: the frame ends in front of its EOI marker
DispatchEoiBeforeMarker(cx, seg) ==
  LET pend == IF cx.p.tags # NoTags THEN cx.p.tags ELSE cx.pending
      f == gst_jpeg_parse_push_frame(cx.p, seg.offset - 2)
  IN Outcome([cx EXCEPT !.p = gst_jpeg_parse_reset(f.p), !.pending = pend],
             f.ret, 0, f)

\* a faulty variant: the bytes of the finished frame are skipped as well
DispatchEoiSkips(cx, seg) ==
  LET pend == IF cx.p.tags # NoTags THEN cx.p.tags ELSE cx.pending
      f == gst_jpeg_parse_push_frame(cx.p, seg.offset)
  IN Outcome([cx EXCEPT !.p = gst_jpeg_parse_reset(f.p), !.pending = pend],
             f.ret, seg.offset, f)

\* case GST_JPEG_MARKER_EOI
DispatchEoi(cx, seg) ==
  LET pending == IF cx.p.tags # NoTags THEN cx.p.tags ELSE cx.pending
      f == gst_jpeg_parse_push_frame(cx.p, seg.offset)
      warn == IF f.invalid THEN cx.warn \cup {"Potentially invalid picture"}
              ELSE cx.warn
  IN Outcome([cx EXCEPT !.p = gst_jpeg_parse_reset(f.p), !.pending = pending,
                        !.warn = warn],
             f.ret, 0, f)

\* a faulty variant: an SOF is accepted although GOT_SOF is set
SofAcceptedAgain(cx, buf, seg) ==
  gst_jpeg_parse_sof(cx.p, buf, seg).ok

\* default: SOFn segments
SofAccepted(cx, buf, seg) ==
  /\ ~valid_state(cx.p.state, {GST_JPEG_PARSER_STATE_GOT_SOF})
  /\ gst_jpeg_parse_sof(cx.p, buf, seg).ok

DispatchSofOk(cx, buf, seg) ==
  [cx EXCEPT !.p = [gst_jpeg_parse_sof(cx.p, buf, seg).p EXCEPT
                      !.state = @ \cup {GST_JPEG_PARSER_STATE_GOT_SOF},
                      !.sof = seg.marker - 192]]

\* a faulty variant: the error is returned without the reset
DispatchSofErrorKeepsState(cx) ==
  Outcome([cx EXCEPT !.warn = @ \cup {"Duplicated or bad SOF marker"}],
          "ERROR", 0, NoFrame)

DispatchSofError(cx) ==
  Outcome([cx EXCEPT !.p = gst_jpeg_parse_reset(cx.p),
                     !.warn = @ \cup {"Duplicated or bad SOF marker"}],
          "ERROR", 0, NoFrame)

\* a faulty variant: an SOS without an SOF before it is not counted
DispatchNextSosNeedsSof(cx, buf, seg) ==
  CASE seg.marker = GST_JPEG_MARKER_SOS ->
         IF valid_state(cx.p.state, {GST_JPEG_PARSER_STATE_GOT_SOF})
         THEN [cx EXCEPT !.p.state = @ \cup {GST_JPEG_PARSER_STATE_GOT_SOS}]
         ELSE [cx EXCEPT !.warn = @ \cup {"SOS marker without SOF one"}]
    [] seg.marker = GST_JPEG_MARKER_COM ->
         Interpreted(cx, gst_jpeg_parse_com(cx.p, buf, seg),
                     "Failed to parse com segment")
    [] seg.marker = GST_JPEG_MARKER_APP0 ->
         Interpreted(cx, gst_jpeg_parse_app0(cx.p, buf, seg),
                     "Failed to parse app0 segment")
    [] seg.marker = GST_JPEG_MARKER_APP1 ->
         Interpreted(cx, gst_jpeg_parse_app1(cx.p, buf, seg),
                     "Failed to parse app1 segment")
    [] seg.marker = GST_JPEG_MARKER_APP14 ->
         Interpreted(cx, gst_jpeg_parse_app14(cx.p, buf, seg),
                     "Failed to parse app14 segment")
    [] seg.marker = GST_JPEG_MARKER_DHT \/ seg.marker = GST_JPEG_MARKER_DAC -> cx
    [] OTHER ->
         IF seg.marker >= GST_JPEG_MARKER_SOF_MIN
            /\ seg.marker <= GST_JPEG_MARKER_SOF_MAX
         THEN DispatchSofOk(cx, buf, seg)
         ELSE cx

\* the cases of the switch that fall through to the next loop iteration
DispatchNext(cx, buf, seg) ==
  CASE seg.marker = GST_JPEG_MARKER_SOS ->
         [cx EXCEPT !.p.state = @ \cup {GST_JPEG_PARSER_STATE_GOT_SOS},
                    !.warn = IF valid_state(cx.p.state,
                                            {GST_JPEG_PARSER_STATE_GOT_SOF})
                             THEN @ ELSE @ \cup {"SOS marker without SOF one"}]
    [] seg.marker = GST_JPEG_MARKER_COM ->
         Interpreted(cx, gst_jpeg_parse_com(cx.p, buf, seg),
                     "Failed to parse com segment")
    [] seg.marker = GST_JPEG_MARKER_APP0 ->
         Interpreted(cx, gst_jpeg_parse_app0(cx.p, buf, seg),
                     "Failed to parse app0 segment")
    [] seg.marker = GST_JPEG_MARKER_APP1 ->
         Interpreted(cx, gst_jpeg_parse_app1(cx.p, buf, seg),
                     "Failed to parse app1 segment")
    [] seg.marker = GST_JPEG_MARKER_APP14 ->
         Interpreted(cx, gst_jpeg_parse_app14(cx.p, buf, seg),
                     "Failed to parse app14 segment")
    [] seg.marker = GST_JPEG_MARKER_DHT \/ seg.marker = GST_JPEG_MARKER_DAC -> cx
    [] OTHER ->
         IF seg.marker >= GST_JPEG_MARKER_SOF_MIN
            /\ seg.marker <= GST_JPEG_MARKER_SOF_MAX
         THEN DispatchSofOk(cx, buf, seg)
         ELSE cx

\* a faulty variant: every code of the SOF range is an SOF
IsSofWithTables(marker) ==
  /\ marker >= GST_JPEG_MARKER_SOF_MIN
  /\ marker <= GST_JPEG_MARKER_SOF_MAX

IsSof(marker) ==
  /\ marker >= GST_JPEG_MARKER_SOF_MIN
  /\ marker <= GST_JPEG_MARKER_SOF_MAX
  /\ marker # GST_JPEG_MARKER_DHT
  /\ marker # GST_JPEG_MARKER_DAC

\* a faulty variant: bytes without a marker are dropped inside a frame too
NotFoundAlwaysSkips(cx, buf) == Outcome(cx, "OK", Len(buf), NoFrame)

\* gst_jpeg_parse found no segment in the rest of the buffer
NotFound(cx, buf) ==
  IF ~valid_state(cx.p.state, {GST_JPEG_PARSER_STATE_GOT_SOI})
  THEN \* Skip any garbage until SOI
       Outcome(cx, "OK", Len(buf), NoFrame)
  ELSE \* Accept anything after SOI
       Outcome([cx EXCEPT !.p.last_offset = Len(buf)], "OK", 0, NoFrame)

\* a faulty variant: the cursor is left behind the marker
IncompleteSegmentNoBackOff(cx, seg) ==
  Outcome([cx EXCEPT !.p.last_offset = seg.offset], "OK", 0, NoFrame)

\* the segment's payload ends behind the buffer: the cursor goes to its marker
IncompleteSegment(cx, seg) ==
  Outcome([cx EXCEPT !.p.last_offset = seg.offset - 2], "OK", 0, NoFrame)

\* a faulty variant: segments are dispatched before any SOI
SkippedInIdleNever(cx, seg) == FALSE

\* no SOI yet and the marker is not SOI: continue
SkippedInIdle(cx, seg) ==
  /\ ~valid_state(cx.p.state, {GST_JPEG_PARSER_STATE_GOT_SOI})
  /\ seg.marker # GST_JPEG_MARKER_SOI

RECURSIVE Loop(_, _, _)
RECURSIVE Segment(_, _, _)

\* while (offset < mapinfo.size): the scanner is asked for the next segment
Loop(cx, buf, offset) ==
  IF ~(offset < Len(buf))
  THEN Outcome([cx EXCEPT !.p.last_offset = offset], "OK", 0, NoFrame)
  ELSE Segment(cx, buf, gst_jpeg_parse(buf, offset))

\* a faulty variant: behind an interpreted segment the scan goes on behind
\* the length field, inside the payload
DispatchIntoPayload(cd, buf, seg) ==
  CASE seg.marker = GST_JPEG_MARKER_SOI ->
         IF SoiSkips(seg.offset + seg.size)
         THEN Outcome([DispatchSoi(cd) EXCEPT !.p.last_offset = 2],
                      "OK", seg.offset + seg.size - 2, NoFrame)
         ELSE Loop(DispatchSoi(cd), buf, seg.offset + seg.size)
    [] seg.marker = GST_JPEG_MARKER_EOI -> DispatchEoi(cd, seg)
    [] IsSof(seg.marker) /\ ~SofAccepted(cd, buf, seg) -> DispatchSofError(cd)
    [] OTHER -> Loop(DispatchNext(cd, buf, seg), buf, seg.offset + 2)

\* switch (marker), with offset advanced behind the segment
Dispatch(cd, buf, seg) ==
  CASE seg.marker = GST_JPEG_MARKER_SOI ->
         IF SoiSkips(seg.offset + seg.size)
         THEN Outcome([DispatchSoi(cd) EXCEPT !.p.last_offset = 2],
                      "OK", seg.offset + seg.size - 2, NoFrame)
         ELSE Loop(DispatchSoi(cd), buf, seg.offset + seg.size)
    [] seg.marker = GST_JPEG_MARKER_EOI -> DispatchEoi(cd, seg)
    [] IsSof(seg.marker) /\ ~SofAccepted(cd, buf, seg) -> DispatchSofError(cd)
    [] OTHER -> Loop(DispatchNext(cd, buf, seg), buf, seg.offset + seg.size)

\* the body of the loop for the scanner's answer seg
Segment(cx, buf, seg) ==
  IF ~seg.found
  THEN NotFound(cx, buf)
  ELSE
  IF SkippedInIdle(cx, seg)
  THEN Loop(cx, buf, seg.offset)
  ELSE
  IF seg.offset + seg.size > Len(buf)
  THEN IncompleteSegment(cx, seg)
  ELSE Dispatch([cx EXCEPT !.disp = Append(@, seg)], buf, seg)

\* a faulty variant: a buffer that cannot be mapped costs the parser its state
UnmappedResets(p, pending) ==
  Outcome([p |-> gst_jpeg_parse_reset(p), pending |-> pending, warn |-> {},
           disp |-> <<>>], "ERROR", 0, NoFrame)

\* if (!gst_buffer_map (...)) return GST_FLOW_ERROR;
Unmapped(p, pending) ==
  Outcome([p |-> p, pending |-> pending, warn |-> {}, disp |-> <<>>],
          "ERROR", 0, NoFrame)

HandleFrame(p, pending, buf) ==
  Loop([p |-> p, pending |-> pending, warn |-> {}, disp |-> <<>>], buf,
       ResumeOffset(p.last_offset))

(***************************************************************************)
(* Input streams.  A stream is leading garbage followed by frames drawn    *)
(* from a menu; each frame is encoded to bytes segment by segment.         *)
(***************************************************************************)
MaxFrames == 2

SegSOI == <<255, 216>>
SegEOI == <<255, 217>>

\* SOFn with one gray component: Lf P Y X Nf C H:V Tq
SegSOF(marker, w, h) ==
  <<255, marker, 0, 11, 8, h \div 256, h % 256, w \div 256, w % 256, 1, 1, 17, 0>>

\* an SOF whose declared length leaves no room for the header
SegSOFBad == <<255, 192, 0, 4, 8, 0>>

\* SOS of a one component scan, and entropy coded data with a stuffed 0xFF
SegSOS == <<255, 218, 0, 8, 1, 1, 0, 0, 63, 0>>
Entropy == <<37, 255, 0>>

SegCOM(text) == <<255, 254, 0, 2 + Len(text)>> \o text

SegAPP0(unit, xd, yd) ==
  <<255, 224, 0, 16, 74, 70, 73, 70, 0, 1, 1, unit, xd \div 256, xd % 256,
    yd \div 256, yd % 256, 0, 0>>

\* the frames of the menu: A, B and J are valid (SOI, one SOF, one SOS, EOI)
FrameBytes(f) ==
  CASE f = "A" -> SegSOI \o SegSOF(192, 2, 1) \o SegSOS \o Entropy \o SegEOI
    [] f = "B" -> SegSOI \o SegCOM(<<99>>) \o SegSOF(194, 1, 3) \o SegSOS
                  \o Entropy \o SegEOI
    [] f = "J" -> SegSOI \o SegAPP0(0, 2, 1) \o SegSOF(192, 2, 1) \o SegSOS
                  \o Entropy \o SegEOI
    [] f = "N" -> SegSOI \o SegSOS \o Entropy \o SegEOI
    [] f = "D" -> SegSOI \o SegSOF(192, 2, 1) \o SegSOF(192, 1, 3) \o SegSOS
                  \o Entropy \o SegEOI
    [] f = "X" -> SegSOI \o SegSOFBad \o SegSOS \o Entropy \o SegEOI

ValidFrame(f) == f \in {"A", "B", "J"}
FrameWidth(f) == IF f = "B" THEN 1 ELSE 2
FrameHeight(f) == IF f = "B" THEN 3 ELSE 1
FrameSofClass(f) == IF f = "B" THEN 2 ELSE 0

\* frames that occur anywhere in a stream, and frames that only occur alone
FrameNames == {"A", "B", "N", "D"}
SingleFrames == {"J", "X"}

\* leading garbage: none, or bytes that hold no marker and end in 0xFF
Leads == { <<>>, <<17, 255>> }

RECURSIVE Encode(_)
Encode(frames) ==
  IF frames = <<>> THEN <<>> ELSE FrameBytes(Head(frames)) \o Encode(Tail(frames))

FrameSeqs ==
  UNION { [1..n -> FrameNames] : n \in 1..MaxFrames }
  \cup { <<f>> : f \in SingleFrames }

\* leading garbage is drawn for the single-frame streams
Inputs ==
  { in \in [lead : Leads, frames : FrameSeqs] :
      in.lead # <<>> => Len(in.frames) = 1 }

\* the offset in the stream at which frame k of the input starts
FrameStart(in, k) == Len(in.lead) + Len(Encode(SubSeq(in.frames, 1, k - 1)))

(***************************************************************************)
(* The base class (GstBaseParse), as far as the element relies on it: it   *)
(* collects the bytes pushed to the sink pad in an adapter and hands all   *)
(* of it to handle_frame once at least `need` bytes are there; skipsize    *)
(* bytes are dropped from the front; a finished frame of `size` bytes is   *)
(* taken off the front and pushed downstream with the pending tags; a call *)
(* that consumed nothing, or failed, is repeated only with more data.      *)
(***************************************************************************)
MinFrameSize == 2

\* upstream pushes at most MaxChunk bytes at a time, or all that is left
MaxChunk == 3

\* at most MaxFlushes FLUSH_STOP events arrive
MaxFlushes == 1

VARIABLES
  input,        \* the stream's description: [lead, frames]
  stream,       \* the bytes upstream will push, in order
  delivered,    \* how many of them the sink pad has received
  consumed,     \* how many the base class has dropped or pushed downstream
  need,         \* bytes the adapter must hold before the next handle_frame
  parse,        \* GstJpegParse's fields
  pending,      \* the tags set by gst_base_parse_merge_tags
  out,          \* the frames pushed downstream, in order
  skipped,      \* bytes dropped as garbage
  last,         \* what the last call or event did (dropped: the flags a
                \* flush discarded)
  chains,       \* sink pad pushes so far (counted up to 2)
  flushes       \* FLUSH_STOP events so far

vars == <<input, stream, delivered, consumed, need, parse, pending, out,
          skipped, last, chains, flushes>>

Buffer == Slice(stream, consumed, delivered)
Avail == delivered - consumed

NoCall == [op |-> "none", ret |-> "OK", skipsize |-> 0, framed |-> FALSE,
           warn |-> {}, dropped |-> {}]

\* what the base class does with the result r of a call on size bytes
Account(h, size, r) ==
  [parse |-> r.p,
   pending |-> r.pending,
   consumed |-> h.consumed + (IF r.ret = "OK" THEN r.skipsize + r.size ELSE 0),
   need |-> IF r.ret = "OK" /\ (r.skipsize > 0 \/ r.framed)
            THEN MinFrameSize ELSE size + 1,
   out |-> IF r.ret = "OK" /\ r.framed
           THEN Append(h.out, [caps |-> r.caps, size |-> r.size,
                               tags |-> r.pending, invalid |-> r.invalid,
                               notified |-> r.notified, at |-> h.consumed])
           ELSE h.out,
   skipped |-> h.skipped + r.skipsize,
   last |-> [op |-> "call", ret |-> r.ret, skipsize |-> r.skipsize,
             framed |-> r.framed, warn |-> r.warn, dropped |-> {}]]

\* the host's view of one handle_frame call on the adapter's content
HostStep(h, buf) == Account(h, Len(buf), HandleFrame(h.parse, h.pending, buf))

Host == [parse |-> parse, pending |-> pending, consumed |-> consumed,
         need |-> need, out |-> out, skipped |-> skipped,
         last |-> last]

\* the offsets at which upstream may resume after a discontinuity: the start
\* of a frame not yet pushed, or the end of the stream
ResumePoints ==
  { FrameStart(input, k) : k \in 1..(Len(input.frames) + 1) }

FreshHost == [parse |-> gst_jpeg_parse_start, pending |-> NoTags, consumed |-> 0,
              need |-> MinFrameSize, out |-> <<>>, skipped |-> 0,
              last |-> NoCall]

Init ==
  /\ input \in Inputs
  /\ stream = input.lead \o Encode(input.frames)
  /\ delivered = 0
  /\ consumed = 0
  /\ need = MinFrameSize
  /\ parse = gst_jpeg_parse_start
  /\ pending = NoTags
  /\ out = <<>>
  /\ skipped = 0
  /\ last = NoCall
  /\ chains = 0
  /\ flushes = 0

\* gst_base_parse_chain: upstream pushes the next n bytes
Chain(n) ==
  /\ Avail < need
  /\ n > 0
  /\ delivered + n <= Len(stream)
  /\ delivered' = delivered + n
  /\ chains' = IF chains < 2 THEN chains + 1 ELSE chains
  /\ UNCHANGED <<input, stream, consumed, need, parse, pending, out, skipped,
                 last, flushes>>

\* the host's variables become h
Becomes(h) ==
  /\ parse' = h.parse
  /\ pending' = h.pending
  /\ consumed' = h.consumed
  /\ need' = h.need
  /\ out' = h.out
  /\ skipped' = h.skipped
  /\ last' = h.last

\* the base class calls gst_jpeg_parse_handle_frame on the adapter's content
CallHandleFrame ==
  /\ Avail >= need
  /\ Becomes(HostStep(Host, Buffer))
  /\ UNCHANGED <<input, stream, delivered, chains, flushes>>

\* gst_jpeg_parse_sink_event (GST_EVENT_FLUSH_STOP): the element resets, the
\* base class drops the adapter's content, and upstream resumes at `at`.
\* Events are serialized with the buffers, so none arrives inside a chain call.
FlushStop(at) ==
  /\ Avail < need
  /\ flushes < MaxFlushes
  /\ at >= delivered
  /\ parse' = gst_jpeg_parse_reset(parse)
  /\ delivered' = at
  /\ consumed' = at
  /\ need' = MinFrameSize
  /\ flushes' = flushes + 1
  /\ last' = [NoCall EXCEPT !.op = "flush", !.dropped = parse.state]
  /\ UNCHANGED <<input, stream, pending, out, skipped, chains>>

Next ==
  \/ \E n \in (1..MaxChunk) \cup {Len(stream) - delivered} : Chain(n)
  \/ CallHandleFrame
  \/ \E at \in ResumePoints : FlushStop(at)

Spec == Init /\ [][Next]_vars

(***************************************************************************)
(* One frame of the menu, pushed in chunks without a flush: the runs in    *)
(* which a call's buffer ends anywhere inside the frame.                   *)
(***************************************************************************)
InitChunk == Init /\ Len(input.frames) = 1

NextChunk ==
  \/ \E n \in (1..MaxChunk) \cup {Len(stream) - delivered} : Chain(n)
  \/ CallHandleFrame

SpecChunk == InitChunk /\ [][NextChunk]_vars

\* the stream has been pushed entirely and the base class waits for more
Done == delivered = Len(stream) /\ Avail < need

(***************************************************************************)
(* The base class on a buffer that no longer grows: handle_frame is called *)
(* again for as long as the adapter holds the bytes it needs.              *)
(***************************************************************************)
RECURSIVE Drain(_, _)
Drain(h, bytes) ==
  LET buf == Slice(bytes, h.consumed, Len(bytes)) IN
  IF Len(buf) < h.need THEN h ELSE Drain(HostStep(h, buf), bytes)

\* the bytes pushed in one buffer to a parser with fields p
FeedWhole(p, pend, bytes) ==
  Drain([FreshHost EXCEPT !.parse = p, !.pending = pend], bytes)

\* what downstream sees of a frame: its caps, its size and its tags
Desc(o) == [caps |-> o.caps, size |-> o.size, tags |-> o.tags]
Descs(frames) == [k \in 1..Len(frames) |-> Desc(frames[k])]

\* what the host sees of a run
Observed(h) ==
  [ret |-> h.last.ret, frames |-> Descs(h.out), skipped |-> h.skipped,
   consumed |-> h.consumed]

AllValid(in) == \A k \in 1..Len(in.frames) : ValidFrame(in.frames[k])

\* the stream went down in one push and no flush came
FedWhole == Done /\ chains = 1 /\ flushes = 0

\* everything gst_jpeg_parse_reset is said to discard
AllDiscarded(p) ==
  /\ p.state = {}
  /\ p.tags = NoTags
  /\ p.width = 0 /\ p.height = 0
  /\ p.x_density = 0 /\ p.y_density = 0
  /\ p.sof = -1
  /\ p.last_offset = 0

\* the call that is about to run, when the base class is about to call
ThisCall == HandleFrame(parse, pending, Buffer)

LastSeg(r) == r.disp[Len(r.disp)]

(***************************************************************************)
(* C1                                                                      *)
(***************************************************************************)
\* C1: a valid single frame (SOI, one SOF, one SOS, EOI) pushed in one buffer
\* to a freshly started parser yields exactly one frame downstream, and its
\* caps carry the width and the height of the frame's SOF header.
C1_OneFrameWithSofDimensions ==
  (FedWhole /\ input.lead = <<>> /\ Len(input.frames) = 1 /\ AllValid(input))
  => /\ Len(out) = 1
     /\ out[1].caps.width = FrameWidth(input.frames[1])
     /\ out[1].caps.height = FrameHeight(input.frames[1])

C1_Witness ==
  /\ FedWhole
  /\ input = [lead |-> <<>>, frames |-> <<"B">>]
  /\ Len(out) = 1
  /\ out[1].caps.width = 1 /\ out[1].caps.height = 3

(***************************************************************************)
(* C2                                                                      *)
(***************************************************************************)
\* C2: fragmentation transparency: however a valid input is split into
\* successive pushes, once all of it is pushed the frames downstream (caps,
\* size, tags) are those of the same input pushed in one buffer.
C2_FragmentationTransparency ==
  (Done /\ flushes = 0 /\ input.lead = <<>> /\ AllValid(input))
  => Descs(out) = Descs(FeedWhole(gst_jpeg_parse_start, NoTags, stream).out)

(***************************************************************************)
(* C3                                                                      *)
(***************************************************************************)
\* C3: garbage without a marker in front of a valid frame, pushed in one
\* buffer: exactly the garbage is skipped, and the frame downstream (caps,
\* size, tags) is that of the same frame without the garbage.
C3_GarbageSkippedExactly ==
  (FedWhole /\ input.lead # <<>> /\ AllValid(input))
  => /\ skipped = Len(input.lead)
     /\ Descs(out) =
          Descs(FeedWhole(gst_jpeg_parse_start, NoTags, Encode(input.frames)).out)
     /\ Len(out) = Len(input.frames)

C3_Witness ==
  /\ FedWhole
  /\ input = [lead |-> <<17, 255>>, frames |-> <<"J">>]
  /\ skipped = 2
  /\ Len(out) = 1
  /\ out[1].size = Len(FrameBytes("J"))

(***************************************************************************)
(* C4                                                                      *)
(***************************************************************************)
\* the call r on buf, begun with the fields p, dispatches an SOF when the
\* frame has had one already, or an SOF whose header does not parse
SofRejected(p, r, buf) ==
  \E i \in 1..Len(r.disp) :
    /\ IsSof(r.disp[i].marker)
    /\ \/ valid_state(p.state, {GST_JPEG_PARSER_STATE_GOT_SOF})
       \/ \E j \in 1..(i - 1) : IsSof(r.disp[j].marker)
       \/ ~gst_jpeg_segment_parse_frame_header(buf, r.disp[i]).ok

\* C4: a call that dispatches a second SOF of the frame, or an SOF whose
\* header fails to parse, returns GST_FLOW_ERROR, pushes no frame and
\* consumes nothing, and leaves the flags, dimensions, SOF class, tags and
\* cursor discarded (the parser is idle).
C4_RejectedSofAborts ==
  [][ (Avail >= need /\ SofRejected(parse, ThisCall, Buffer))
      => /\ last'.ret = "ERROR"
         /\ ~last'.framed
         /\ out' = out
         /\ consumed' = consumed
         /\ AllDiscarded(parse') ]_vars

C4_Witness ==
  /\ last.op = "call" /\ last.ret = "ERROR"
  /\ "Duplicated or bad SOF marker" \in last.warn
  /\ input.frames = <<"D">>
  /\ out = <<>>

(***************************************************************************)
(* C5                                                                      *)
(***************************************************************************)
\* C5: a frame with two consecutive SOF segments followed by a well-formed
\* frame, pushed in one buffer: once the base class has nothing left to
\* call for, the well-formed frame has been pushed downstream.
C5_GoodFrameAfterBadSof ==
  (FedWhole /\ input.lead = <<>> /\ Len(input.frames) = 2
   /\ input.frames[1] = "D" /\ ValidFrame(input.frames[2]))
  => \E k \in 1..Len(out) :
       /\ out[k].at = FrameStart(input, 2)
       /\ out[k].size = Len(FrameBytes(input.frames[2]))
       /\ out[k].caps.width = FrameWidth(input.frames[2])

(***************************************************************************)
(* C6                                                                      *)
(***************************************************************************)
\* C6: N valid frames back to back, pushed in one buffer: N frames go
\* downstream, the k-th starting where the k-th frame starts, as long as the
\* k-th frame from SOI to EOI and with the width and height of its SOF; and
\* whenever a frame has just been pushed the parser is idle.
C6_OneFramePerInputFrame ==
  /\ (FedWhole /\ input.lead = <<>> /\ AllValid(input))
     => /\ Len(out) = Len(input.frames)
        /\ \A k \in 1..Len(out) :
             /\ out[k].at = FrameStart(input, k)
             /\ out[k].size = Len(FrameBytes(input.frames[k]))
             /\ out[k].caps.width = FrameWidth(input.frames[k])
             /\ out[k].caps.height = FrameHeight(input.frames[k])
  /\ last.framed => parse.state = {}

C6_Witness ==
  /\ FedWhole
  /\ input = [lead |-> <<>>, frames |-> <<"A", "B">>]
  /\ Len(out) = 2
  /\ out[2].at = Len(FrameBytes("A"))
  /\ last.framed

(***************************************************************************)
(* C7                                                                      *)
(***************************************************************************)
\* C7: gst_jpeg_parse_reset is idempotent in every state the parser reaches;
\* right after a flush a further reset changes nothing, and any valid frame
\* pushed next gives the host what it gives on a freshly started parser
\* (flow return, bytes skipped and consumed, the frame's caps, size and tags).
C7_ResetIdempotent ==
  /\ gst_jpeg_parse_reset(gst_jpeg_parse_reset(parse)) = gst_jpeg_parse_reset(parse)
  /\ last.op = "flush"
     => /\ gst_jpeg_parse_reset(parse) = parse
        /\ \A f \in {"A", "B", "J"} :
             Observed(FeedWhole(parse, pending, FrameBytes(f)))
             = Observed(FeedWhole(gst_jpeg_parse_start, NoTags, FrameBytes(f)))

\* a flush in the middle of a frame, after an earlier frame went downstream
C7_Witness ==
  /\ last.op = "flush"
  /\ GST_JPEG_PARSER_STATE_GOT_SOF \in last.dropped
  /\ parse.prev_caps # NoCaps
  /\ parse # gst_jpeg_parse_start

(***************************************************************************)
(* C8                                                                      *)
(***************************************************************************)
\* C8: right after a frame was finished at EOI, after an abort on a
\* duplicate or bad SOF, and after a flush, the flags are empty, the tags are
\* empty, width, height and the densities are 0, the SOF class is unset and
\* the cursor is 0.
C8_StateDiscarded ==
  (last.framed \/ last.ret = "ERROR" \/ last.op = "flush")
  => AllDiscarded(parse)

\* a frame with a JFIF density and dimensions has just been finished
C8_Witness ==
  /\ last.framed
  /\ out[Len(out)].caps.pixel_aspect_ratio = <<2, 1>>
  /\ out[Len(out)].caps.width = 2
  /\ AllDiscarded(parse)

(***************************************************************************)
(* C9                                                                      *)
(***************************************************************************)
\* C9: a frame pushed downstream without any SOF of its own (its caps carry
\* no sof-marker) has colorspace NONE and sampling NONE, whatever the frames
\* before it were.
C9_ColorFromOwnSof ==
  (chains <= 1 /\ flushes = 0)
  => \A k \in 1..Len(out) :
       out[k].caps.sof_marker = -1
       => out[k].caps.colorspace = "NONE" /\ out[k].caps.sampling = "NONE"

(***************************************************************************)
(* C10                                                                     *)
(***************************************************************************)
\* the call r dispatches EOI for a frame whose flags lack SOI, SOF or SOS
EoiWithoutTriple(r) ==
  /\ r.disp # <<>>
  /\ LastSeg(r).marker = GST_JPEG_MARKER_EOI
  /\ r.invalid

\* C10: a call that dispatches EOI while the flags lack one of SOI, SOF, SOS
\* returns GST_FLOW_OK and pushes the frame, up to and including the EOI,
\* downstream; the "Potentially invalid picture" warning is all that tells
\* it from a valid one.
C10_InvalidFrameStillEmitted ==
  [][ (Avail >= need /\ EoiWithoutTriple(ThisCall))
      => /\ last'.ret = "OK"
         /\ last'.framed
         /\ Len(out') = Len(out) + 1
         /\ out'[Len(out')].size = LastSeg(ThisCall).offset
         /\ consumed' = consumed + LastSeg(ThisCall).offset
         /\ "Potentially invalid picture" \in last'.warn ]_vars

C10_Witness ==
  /\ last.framed
  /\ FedWhole
  /\ input.frames = <<"N">>
  /\ Len(out) = 1
  /\ out[1].invalid
  /\ out[1].size = Len(FrameBytes("N"))
  /\ "Potentially invalid picture" \in last.warn

(***************************************************************************)
(* One frame of the menu pushed in chunks, with buffers that may fail to   *)
(* map: the call then returns before it looks at the parser.               *)
(***************************************************************************)
\* the base class calls gst_jpeg_parse_handle_frame and gst_buffer_map fails
MapFails ==
  /\ Avail >= need
  /\ Becomes([Account(Host, Len(Buffer), Unmapped(parse, pending))
               EXCEPT !.last.op = "nomap"])
  /\ UNCHANGED <<input, stream, delivered, chains, flushes>>

NextMap ==
  \/ \E n \in (1..MaxChunk) \cup {Len(stream) - delivered} : Chain(n)
  \/ CallHandleFrame
  \/ MapFails

SpecMap == InitChunk /\ [][NextMap]_vars

(***************************************************************************)
(* Frames composed segment by segment: an SOI, up to MaxBody segments of   *)
(* a menu (SOI and EOI among them, so that a stream may hold a truncated   *)
(* frame, a second frame, or markers between two frames), and an EOI.      *)
(* Upstream pushes the stream in buffers that end on segment boundaries.   *)
(***************************************************************************)
MaxBody == 3

\* the component table of an SOF: C H:V Tq per component
RECURSIVE Components(_)
Components(comps) ==
  IF comps = <<>> THEN <<>>
  ELSE <<Head(comps).id, 16 * Head(comps).h + Head(comps).v, 0>>
       \o Components(Tail(comps))

SegSOFn(marker, w, h, comps) ==
  <<255, marker, 0, 8 + 3 * Len(comps), 8, h \div 256, h % 256, w \div 256,
    w % 256, Len(comps)>> \o Components(comps)

\* three components named 'R', 'G', 'B', the first sampled twice as often
\* horizontally
Comps422 == <<[id |-> 82, h |-> 2, v |-> 1], [id |-> 71, h |-> 1, v |-> 1],
              [id |-> 66, h |-> 1, v |-> 1]>>

\* an APP0 too short for a JFIF header, an APP1 whose identifier has no
\* NUL, an APP14 too short for an Adobe header
SegAPP0Short == <<255, 224, 0, 7, 74, 70, 73, 70, 0>>
SegAPP1NoNul == <<255, 225, 0, 6, 69, 120, 105, 102>>
SegAPP14Short == <<255, 238, 0, 8, 65, 100, 111, 98, 101, 0>>

\* the texts of the menu's comments: ASCII, UTF-8 with a two byte sequence,
\* and ISO-8859-1 that is not valid UTF-8
ComText(s) ==
  CASE s = "COMa" -> <<97>>
    [] s = "COMb" -> <<98, 195, 169>>
    [] s = "COMl" -> <<233>>

\* segments whose payload holds byte patterns that look like markers: a COM
\* with an EOI, with a whole SOF segment, with a whole JFIF APP0 segment, and
\* an Exif APP1 with a thumbnail (SOI, EOI) behind the TIFF byte order mark
SegCOMEoi == SegCOM(<<255, 217>>)
SegCOMSof == SegCOM(SegSOF(192, 3, 3))
SegCOMApp0 == SegCOM(SegAPP0(1, 2, 1))
SegAPP1Thumb ==
  <<255, 225, 0, 14, 69, 120, 105, 102, 0, 0, 73, 73, 255, 216, 255, 217>>

\* a Huffman table and an arithmetic conditioning segment (contents are not
\* looked at by the element)
SegDHT == <<255, 196, 0, 5, 0, 1, 2>>
SegDAC == <<255, 204, 0, 4, 0, 16>>

SegBytes(s) ==
  CASE s = "SOI" -> SegSOI
    [] s = "EOI" -> SegEOI
    [] s = "SOF" -> SegSOF(192, 2, 1)
    [] s = "SOF3" -> SegSOFn(193, 4, 2, Comps422)
    [] s = "SOS" -> SegSOS \o Entropy
    [] s = "COMa" -> SegCOM(ComText("COMa"))
    [] s = "COMb" -> SegCOM(ComText("COMb"))
    [] s = "COMl" -> SegCOM(ComText("COMl"))
    [] s = "APP0" -> SegAPP0(0, 2, 1)
    [] s = "APP0x" -> SegAPP0Short
    [] s = "APP1x" -> SegAPP1NoNul
    [] s = "APP14x" -> SegAPP14Short
    [] s = "COMeoi" -> SegCOMEoi
    [] s = "COMsof" -> SegCOMSof
    [] s = "COMapp0" -> SegCOMApp0
    [] s = "APP1thumb" -> SegAPP1Thumb
    [] s = "APP0u1" -> SegAPP0(1, 3, 2)
    [] s = "APP0u2" -> SegAPP0(2, 3, 2)
    [] s = "APP0z" -> SegAPP0(0, 0, 1)
    [] s = "DHT" -> SegDHT
    [] s = "DAC" -> SegDAC

SegNames == {"SOI", "EOI", "SOF", "SOF3", "SOS", "COMa", "COMb", "COMl",
             "APP0", "APP0x", "APP1x", "APP14x"}

RECURSIVE EncodeSegs(_)
EncodeSegs(segs) ==
  IF segs = <<>> THEN <<>> ELSE SegBytes(Head(segs)) \o EncodeSegs(Tail(segs))

\* the segments of the stream with the body b, in order
Framed(b) == <<"SOI">> \o b \o <<"EOI">>

Bodies == UNION { [1..n -> SegNames] : n \in 0..MaxBody }

\* the offsets at which a segment of the stream starts, and its end
Boundaries(segs) ==
  { Len(EncodeSegs(SubSeq(segs, 1, k))) : k \in 1..Len(segs) }

InitSeg ==
  /\ input \in [segs : { Framed(b) : b \in Bodies }]
  /\ stream = EncodeSegs(input.segs)
  /\ delivered = 0
  /\ consumed = 0
  /\ need = MinFrameSize
  /\ parse = gst_jpeg_parse_start
  /\ pending = NoTags
  /\ out = <<>>
  /\ skipped = 0
  /\ last = NoCall
  /\ chains = 0
  /\ flushes = 0

NextSeg ==
  \/ \E at \in Boundaries(input.segs) : Chain(at - delivered)
  \/ CallHandleFrame

SpecSeg == InitSeg /\ [][NextSeg]_vars

(***************************************************************************)
(* Frames whose segments carry marker-like payloads: SOI, up to MaxBody of *)
(* the segments below, EOI, delivered in buffers that end on segment       *)
(* boundaries.                                                             *)
(***************************************************************************)
PayNames == {"COMeoi", "COMsof", "COMapp0", "APP1thumb", "SOF"}

PayBodies == UNION { [1..n -> PayNames] : n \in 0..MaxBody }

InitPay ==
  /\ input \in [segs : { Framed(b) : b \in PayBodies }]
  /\ stream = EncodeSegs(input.segs)
  /\ delivered = 0
  /\ consumed = 0
  /\ need = MinFrameSize
  /\ parse = gst_jpeg_parse_start
  /\ pending = NoTags
  /\ out = <<>>
  /\ skipped = 0
  /\ last = NoCall
  /\ chains = 0
  /\ flushes = 0

SpecPay == InitPay /\ [][NextSeg]_vars

(***************************************************************************)
(* Frames with table segments: SOI, up to MaxBody of DHT, DAC, SOF (one    *)
(* and three components) and SOS, EOI, delivered in buffers that end on    *)
(* segment boundaries.                                                     *)
(***************************************************************************)
TabNames == {"DHT", "DAC", "SOF", "SOF3", "SOS"}

TabBodies == UNION { [1..n -> TabNames] : n \in 0..MaxBody }

InitTab ==
  /\ input \in [segs : { Framed(b) : b \in TabBodies }]
  /\ stream = EncodeSegs(input.segs)
  /\ delivered = 0
  /\ consumed = 0
  /\ need = MinFrameSize
  /\ parse = gst_jpeg_parse_start
  /\ pending = NoTags
  /\ out = <<>>
  /\ skipped = 0
  /\ last = NoCall
  /\ chains = 0
  /\ flushes = 0

SpecTab == InitTab /\ [][NextSeg]_vars

(***************************************************************************)
(* Frames with JFIF headers: SOI, up to MaxBody of JFIF APP0 segments with *)
(* unit 0 (densities 2:1 and 0:1), unit 1 and unit 2 (densities 3 and 2),  *)
(* and SOI, then EOI, delivered in buffers that end on segment boundaries. *)
(***************************************************************************)
JfifNames == {"SOI", "APP0", "APP0z", "APP0u1", "APP0u2"}

JfifBodies == UNION { [1..n -> JfifNames] : n \in 0..MaxBody }

InitJfif ==
  /\ input \in [segs : { Framed(b) : b \in JfifBodies }]
  /\ stream = EncodeSegs(input.segs)
  /\ delivered = 0
  /\ consumed = 0
  /\ need = MinFrameSize
  /\ parse = gst_jpeg_parse_start
  /\ pending = NoTags
  /\ out = <<>>
  /\ skipped = 0
  /\ last = NoCall
  /\ chains = 0
  /\ flushes = 0

SpecJfif == InitJfif /\ [][NextSeg]_vars

(***************************************************************************)
(* Streams that need not start a frame: up to MaxIdleSegs segments of SOI, *)
(* EOI, COM, SOF and SOS in any order, delivered in buffers that end on    *)
(* segment boundaries, so that calls see markers before any SOI and        *)
(* behind an EOI.                                                          *)
(***************************************************************************)
MaxIdleSegs == 4

IdleNames == {"SOI", "EOI", "COMa", "SOF", "SOS"}

IdleStreams == UNION { [1..n -> IdleNames] : n \in 1..MaxIdleSegs }

InitIdle ==
  /\ input \in [segs : IdleStreams]
  /\ stream = EncodeSegs(input.segs)
  /\ delivered = 0
  /\ consumed = 0
  /\ need = MinFrameSize
  /\ parse = gst_jpeg_parse_start
  /\ pending = NoTags
  /\ out = <<>>
  /\ skipped = 0
  /\ last = NoCall
  /\ chains = 0
  /\ flushes = 0

SpecIdle == InitIdle /\ [][NextSeg]_vars

(***************************************************************************)
(* gst_jpeg_parse_sof on its own.  The parser is brought, by the APP0 and  *)
(* APP14 interpreters, into a state a frame can be in when its SOF is      *)
(* dispatched: behind the SOI, with or without a JFIF header, with or      *)
(* without an Adobe header carrying a transform; the SOF holds one of the  *)
(* component tables below.                                                 *)
(***************************************************************************)
\* Adobe transforms 0..MaxTransform are drawn
MaxTransform == 3

\* an APP14 from which the element reads the transform t
SegAPP14(t) ==
  <<255, 238, 0, 15, 65, 100, 111, 98, 101, 0, 100, 0, 0, 0, 0, 0, t>>

\* identifiers per component count, and sampling factors of three components
\* (3,1,1 is not in subsampling_map)
CompIds == {<<1>>, <<1, 2>>, <<1, 2, 3>>, <<82, 71, 66>>, <<82, 71, 67>>,
            <<1, 2, 3, 4>>, <<67, 77, 89, 75>>}
Factors3 == {<<1, 1, 1>>, <<2, 1, 1>>, <<4, 1, 1>>, <<3, 1, 1>>}

CompTable(ids, h, v) ==
  [k \in 1..Len(ids) |->
     [id |-> ids[k],
      h |-> IF Len(ids) = 3 THEN h[k] ELSE 1,
      v |-> IF Len(ids) = 3 THEN v[k] ELSE 1]]

SofComps ==
  { CompTable(ids, h, v) : ids \in CompIds, h \in Factors3,
                           v \in {<<1, 1, 1>>, <<2, 1, 1>>} }

\* the segment at the start of bytes
FirstSeg(bytes) == gst_jpeg_parse(bytes, 0)

\* the fields behind SOI, an APP0 JFIF (if jfif) and an APP14 (if adobe >= 0)
BeforeSof(jfif, adobe) ==
  LET p0 == [gst_jpeg_parse_start EXCEPT
               !.state = {GST_JPEG_PARSER_STATE_GOT_SOI}]
      p1 == IF jfif
            THEN gst_jpeg_parse_app0(p0, SegAPP0(1, 72, 72),
                                     FirstSeg(SegAPP0(1, 72, 72))).p
            ELSE p0
  IN IF adobe >= 0
     THEN gst_jpeg_parse_app14(p1, SegAPP14(adobe), FirstSeg(SegAPP14(adobe))).p
     ELSE p1

InitSof ==
  /\ input \in [jfif : BOOLEAN, adobe : -1..MaxTransform, comps : SofComps]
  /\ stream = SegSOFn(GST_JPEG_MARKER_SOF_MIN, 4, 2, input.comps)
  /\ delivered = Len(stream)
  /\ consumed = 0
  /\ need = MinFrameSize
  /\ parse = BeforeSof(input.jfif, input.adobe)
  /\ pending = NoTags
  /\ out = <<>>
  /\ skipped = 0
  /\ last = NoCall
  /\ chains = 1
  /\ flushes = 0

\* the SOF segment is handed to gst_jpeg_parse_sof
ApplySof ==
  /\ last.op = "none"
  /\ parse' = gst_jpeg_parse_sof(parse, stream, FirstSeg(stream)).p
  /\ last' = [NoCall EXCEPT
                !.op = "sof",
                !.ret = IF gst_jpeg_parse_sof(parse, stream, FirstSeg(stream)).ok
                        THEN "OK" ELSE "ERROR"]
  /\ UNCHANGED <<input, stream, delivered, consumed, need, pending, out,
                 skipped, chains, flushes>>

NextSof == ApplySof

SpecSof == InitSof /\ [][NextSof]_vars

(***************************************************************************)
(* The subsampling lookup on its own: a three component SOF with the       *)
(* identifiers 1, 2, 3, for which gst_jpeg_parse_sof takes the sampling    *)
(* from yuv_sampling, with every combination of sampling factors from 1 to *)
(* MaxFactor.                                                              *)
(***************************************************************************)
MaxFactor == 4

SampComps ==
  { CompTable(<<1, 2, 3>>, h, v) : h \in [1..3 -> 1..MaxFactor],
                                   v \in [1..3 -> 1..MaxFactor] }

InitSamp ==
  /\ input \in [jfif : BOOLEAN, adobe : {-1}, comps : SampComps]
  /\ stream = SegSOFn(GST_JPEG_MARKER_SOF_MIN, 4, 2, input.comps)
  /\ delivered = Len(stream)
  /\ consumed = 0
  /\ need = MinFrameSize
  /\ parse = BeforeSof(input.jfif, input.adobe)
  /\ pending = NoTags
  /\ out = <<>>
  /\ skipped = 0
  /\ last = NoCall
  /\ chains = 1
  /\ flushes = 0

SpecSamp == InitSamp /\ [][NextSof]_vars

(***************************************************************************)
(* gst_jpeg_parse_sof behind an APP14 that ends with the flags: "Adobe",   *)
(* NUL, version and flags, and no transform byte.  Before it the frame may *)
(* hold a JFIF APP0 and an APP14 carrying a transform.                     *)
(***************************************************************************)
SegAPP14NoTransform ==
  <<255, 238, 0, 14, 65, 100, 111, 98, 101, 0, 100, 0, 0, 0, 0, 0>>

InitAdobe ==
  /\ input \in [jfif : BOOLEAN, adobe : -1..MaxTransform, comps : SofComps]
  /\ stream = SegSOFn(GST_JPEG_MARKER_SOF_MIN, 4, 2, input.comps)
  /\ delivered = Len(stream)
  /\ consumed = 0
  /\ need = MinFrameSize
  /\ parse = gst_jpeg_parse_app14(BeforeSof(input.jfif, input.adobe),
                                  SegAPP14NoTransform,
                                  FirstSeg(SegAPP14NoTransform)).p
  /\ pending = NoTags
  /\ out = <<>>
  /\ skipped = 0
  /\ last = NoCall
  /\ chains = 1
  /\ flushes = 0

SpecAdobe == InitAdobe /\ [][NextSof]_vars

(***************************************************************************)
(* The segment interpreters on their own.  One COM, APP0, APP1 or APP14    *)
(* segment is dispatched by the switch of the handler in a state a frame   *)
(* can be in behind its SOI: with or without a JFIF header (unit 1, which  *)
(* leaves density tags), with or without an Adobe header carrying a        *)
(* transform.  The segments are drawn with every length of the part behind *)
(* the identifier's NUL, so that each checked read of the interpreters is  *)
(* met with and without its bytes.                                         *)
(***************************************************************************)
\* an APP14 carries up to MaxTail bytes behind the identifier's NUL (six of
\* version and flags, then the transform); a JFIF APP0 up to MaxJfifBody
\* (version, unit, densities, thumbnail size)
MaxTail == 7
MaxJfifBody == 9

TailBytes == <<1, 100, 128, 0, 0, 0, 2, 9, 9>>

SegAPP14Var(id, n) ==
  <<255, 238, 0, 3 + Len(id) + n>> \o id \o <<0>> \o SubSeq(TailBytes, 1, n)

\* "Adobe", "AdobeX", "Adobf"
AdobeIds == {Str_Adobe, Str_Adobe \o <<88>>, <<65, 100, 111, 98, 102>>}

\* an APP14 of 12 bytes whose identifier has no NUL
SegAPP14NoNul == <<255, 238, 0, 12, 65, 100, 111, 98, 101, 1, 1, 1, 1, 1>>

SegAPP0Var(id, unit, xd, yd, n) ==
  <<255, 224, 0, 3 + Len(id) + n>> \o id \o <<0>>
    \o SubSeq(<<1, 1, unit, 0, xd, 0, yd, 0, 0, 9, 9>>, 1, n)

\* "JFIF", "JFXX", "JFIG"
JfifIds == {Str_JFIF, Str_JFXX, <<74, 70, 73, 71>>}

\* Exif with nothing behind the identifier; an identifier that is neither
\* Exif nor XMP; an XMP packet
SegAPP1ExifEmpty == <<255, 225, 0, 7, 69, 120, 105, 102, 0>>
SegAPP1Other == <<255, 225, 0, 10, 65, 98, 99, 100, 0, 73, 73, 42>>
\* "ExifX" and the empty identifier, each in front of a TIFF byte order mark
SegAPP1ExifX == <<255, 225, 0, 10, 69, 120, 105, 102, 88, 0, 73, 73>>
SegAPP1NoId == <<255, 225, 0, 5, 0, 73, 73>>
SegAPP1Xmp == <<255, 225, 0, 3 + Len(Str_XMP) + 2>> \o Str_XMP \o <<0, 60, 120>>

IntSegs ==
  { SegAPP14Var(id, n) : id \in AdobeIds, n \in 0..MaxTail }
  \cup {SegAPP14NoNul}
  \cup { SegAPP0Var(id, unit, d[1], d[2], n) :
           id \in JfifIds, unit \in 0..3, d \in {<<2, 1>>, <<0, 1>>},
           n \in 0..MaxJfifBody }
  \cup {SegAPP1NoNul, SegAPP1Thumb, SegAPP1ExifEmpty, SegAPP1Other, SegAPP1Xmp,
        SegAPP1ExifX, SegAPP1NoId}
  \cup {SegCOM(<<>>), SegCOM(<<97>>), SegCOM(<<233>>)}

InitInterp ==
  /\ input \in [jfif : BOOLEAN, adobe : -1..MaxTransform, seg : IntSegs]
  /\ stream = input.seg
  /\ delivered = Len(stream)
  /\ consumed = 0
  /\ need = MinFrameSize
  /\ parse = BeforeSof(input.jfif, input.adobe)
  /\ pending = NoTags
  /\ out = <<>>
  /\ skipped = 0
  /\ last = NoCall
  /\ chains = 1
  /\ flushes = 0

\* the segment as the switch of the handler dispatches it
Switched(p, pend, buf) ==
  DispatchNext([p |-> p, pending |-> pend, warn |-> {}, disp |-> <<>>],
               buf, FirstSeg(buf))

ApplyInterp ==
  /\ last.op = "none"
  /\ parse' = Switched(parse, pending, stream).p
  /\ last' = [NoCall EXCEPT !.op = "interp",
                            !.warn = Switched(parse, pending, stream).warn]
  /\ UNCHANGED <<input, stream, delivered, consumed, need, pending, out,
                 skipped, chains, flushes>>

NextInterp == ApplyInterp

SpecInterp == InitInterp /\ [][NextInterp]_vars

\* the offset in the stream at which segment i starts
SegStart(segs, i) == Len(EncodeSegs(SubSeq(segs, 1, i - 1)))

\* the segments of the stream that make up the frame o pushed downstream
FrameSegs(o) ==
  LET idx == { i \in 1..Len(input.segs) :
                 /\ o.at <= SegStart(input.segs, i)
                 /\ SegStart(input.segs, i) < o.at + o.size }
  IN IF idx = {} THEN <<>>
     ELSE SubSeq(input.segs, SetMin(idx), SetMin(idx) + Cardinality(idx) - 1)

\* the positions of the segments named in names within fs
Where(fs, names) == { i \in 1..Len(fs) : fs[i] \in names }

(***************************************************************************)
(* C11                                                                     *)
(***************************************************************************)
\* the scanner, asked at offset, finds no segment in buf
NothingFound(buf, offset) ==
  offset < Len(buf) /\ ~gst_jpeg_parse(buf, offset).found

\* the offset behind the last segment the call r dispatched
AfterLast(r) == LastSeg(r).offset + LastSeg(r).size

\* the call r on buf went on scanning behind its last dispatched segment
ScansOn(r) ==
  /\ r.disp # <<>>
  /\ GST_JPEG_PARSER_STATE_GOT_SOI \in r.p.state
  /\ ~(LastSeg(r).marker = GST_JPEG_MARKER_SOI /\ SoiSkips(AfterLast(r)))

\* C11: when the scanner finds no marker in the rest of the buffer and SOI
\* has been seen, the call returns GST_FLOW_OK without a skip and without a
\* frame and the cursor is left at the end of the buffer; a call that finds
\* nothing at all leaves every other field (flags, dimensions, tags) and the
\* pending tags as they were.
C11_NoMarkerInFrameWaits ==
  [][ /\ (Avail >= need
          /\ GST_JPEG_PARSER_STATE_GOT_SOI \in parse.state
          /\ NothingFound(Buffer, ResumeOffset(parse.last_offset)))
         => /\ last'.ret = "OK" /\ last'.skipsize = 0 /\ ~last'.framed
            /\ last'.warn = {}
            /\ out' = out /\ consumed' = consumed /\ skipped' = skipped
            /\ parse' = [parse EXCEPT !.last_offset = Len(Buffer)]
            /\ pending' = pending
      /\ (Avail >= need /\ ScansOn(ThisCall)
          /\ NothingFound(Buffer, AfterLast(ThisCall)))
         => /\ last'.ret = "OK" /\ last'.skipsize = 0 /\ ~last'.framed
            /\ out' = out /\ consumed' = consumed
            /\ parse'.last_offset = Len(Buffer) ]_vars

\* frame A up to the first byte of its entropy coded data: the call before
\* ended behind the SOS, this one found nothing in the byte that was added
C11_Witness ==
  /\ input = [lead |-> <<>>, frames |-> <<"A">>]
  /\ last.op = "call" /\ last.ret = "OK" /\ last.skipsize = 0 /\ ~last.framed
  /\ consumed = 0
  /\ delivered = Len(SegSOI \o SegSOF(192, 2, 1) \o SegSOS) + 1
  /\ parse.last_offset = delivered
  /\ GST_JPEG_PARSER_STATE_VALID_PICTURE \subseteq parse.state
  /\ parse.width = 2

(***************************************************************************)
(* C12                                                                     *)
(***************************************************************************)
\* the segment seg is found in buf with its payload ending behind the buffer
Incomplete(buf, seg) == seg.found /\ seg.offset + seg.size > Len(buf)

\* the segment whose marker is at the cursor, when there is one in buf
AtCursor(buf, cursor) ==
  IF IsMarkerAt(buf, cursor) THEN gst_jpeg_parse(buf, cursor) ELSE NoSegment

\* how often the call r dispatched the segment seg
Dispatches(r, seg) ==
  Cardinality({ i \in 1..Len(r.disp) : r.disp[i].offset = seg.offset })

\* C12: a segment found inside a frame whose payload ends behind the buffer
\* is not dispatched: the call returns GST_FLOW_OK without a skip and without
\* a frame, and the cursor is left on that segment's marker.  A call that
\* starts inside a frame with the cursor on a marker whose segment is now
\* whole in the buffer finds that segment first and dispatches it once.
C12_IncompleteSegmentDeferred ==
  [][ /\ (Avail >= need
          /\ GST_JPEG_PARSER_STATE_GOT_SOI \in parse.state
          /\ Incomplete(Buffer, gst_jpeg_parse(Buffer,
                                               ResumeOffset(parse.last_offset))))
         => /\ last'.ret = "OK" /\ last'.skipsize = 0 /\ ~last'.framed
            /\ out' = out /\ consumed' = consumed
            /\ ThisCall.disp = <<>>
            /\ parse' = [parse EXCEPT !.last_offset =
                           gst_jpeg_parse(Buffer,
                             ResumeOffset(parse.last_offset)).offset - 2]
            /\ IsMarkerAt(Buffer, parse'.last_offset)
            /\ pending' = pending
      /\ (Avail >= need /\ ScansOn(ThisCall)
          /\ Incomplete(Buffer, gst_jpeg_parse(Buffer, AfterLast(ThisCall))))
         => /\ last'.ret = "OK" /\ last'.skipsize = 0 /\ ~last'.framed
            /\ out' = out /\ consumed' = consumed
            /\ parse'.last_offset =
                 gst_jpeg_parse(Buffer, AfterLast(ThisCall)).offset - 2
            /\ IsMarkerAt(Buffer, parse'.last_offset)
      /\ (Avail >= need
          /\ GST_JPEG_PARSER_STATE_GOT_SOI \in parse.state
          /\ AtCursor(Buffer, parse.last_offset).found
          /\ ~Incomplete(Buffer, AtCursor(Buffer, parse.last_offset)))
         => /\ ThisCall.disp # <<>>
            /\ ThisCall.disp[1] = AtCursor(Buffer, parse.last_offset)
            /\ Dispatches(ThisCall, AtCursor(Buffer, parse.last_offset)) = 1
            /\ \/ parse'.last_offset
                    >= AfterLast([disp |-> <<ThisCall.disp[1]>>])
               \/ last'.framed \/ last'.ret = "ERROR" ]_vars

\* frame A pushed in chunks up to the end of its SOF segment: the calls on
\* the shorter buffers left the cursor on the SOF's marker, this one
\* dispatched the SOF
C12_Witness ==
  /\ input = [lead |-> <<>>, frames |-> <<"A">>]
  /\ chains = 2
  /\ last.op = "call" /\ last.ret = "OK" /\ ~last.framed
  /\ consumed = 0
  /\ delivered = Len(SegSOI \o SegSOF(192, 2, 1))
  /\ parse.last_offset = delivered
  /\ GST_JPEG_PARSER_STATE_GOT_SOF \in parse.state
  /\ parse.width = 2 /\ parse.height = 1

(***************************************************************************)
(* C13                                                                     *)
(***************************************************************************)
\* a call with the fields p on buf starts before any SOI, and the first
\* marker the scanner finds is not SOI
IdleMarkerFirst(p, buf) ==
  /\ GST_JPEG_PARSER_STATE_GOT_SOI \notin p.state
  /\ gst_jpeg_parse(buf, ResumeOffset(p.last_offset)).found
  /\ gst_jpeg_parse(buf, ResumeOffset(p.last_offset)).marker
       # GST_JPEG_MARKER_SOI

\* the fields of p other than the flags and the cursor
Collected(p) == [p EXCEPT !.state = {}, !.last_offset = 0]

\* C13: while no SOI has been seen every marker other than SOI is skipped
\* without being dispatched: the call dispatches nothing but (at most) the
\* SOI behind them, returns GST_FLOW_OK, pushes no frame, posts no warning,
\* sets no flag other than GOT_SOI, and leaves dimensions, SOF class,
\* densities, Adobe transform and tags as they were.
C13_IdleMarkersSkipped ==
  [][ (Avail >= need /\ IdleMarkerFirst(parse, Buffer))
      => /\ last'.ret = "OK" /\ ~last'.framed /\ out' = out
         /\ last'.warn = {}
         /\ Len(ThisCall.disp) <= 1
         /\ \A i \in 1..Len(ThisCall.disp) :
              ThisCall.disp[i].marker = GST_JPEG_MARKER_SOI
         /\ parse'.state \subseteq {GST_JPEG_PARSER_STATE_GOT_SOI}
         /\ Collected(parse') = Collected(parse)
         /\ ThisCall.disp = <<>>
            => parse'.state = parse.state /\ pending' = pending ]_vars

\* SOI EOI, then a COM between the frames, then SOI EOI: the first frame
\* went downstream, and the call on the rest skipped the COM and its text
\* up to the second SOI
C13_Witness ==
  /\ input.segs = Framed(<<"EOI", "COMa", "SOI">>)
  /\ Len(out) = 1
  /\ last.op = "call" /\ last.ret = "OK"
  /\ last.skipsize = Len(SegBytes("COMa"))
  /\ consumed = Len(SegSOI \o SegEOI \o SegBytes("COMa"))
  /\ parse.state = {GST_JPEG_PARSER_STATE_GOT_SOI}
  /\ parse.tags = NoTags

(***************************************************************************)
(* C14                                                                     *)
(***************************************************************************)
\* the four outcomes of a call with the result r
NeedMoreInput(r) == r.ret = "OK" /\ r.skipsize = 0 /\ ~r.framed
GarbageSkip(r) == r.ret = "OK" /\ r.skipsize > 0 /\ ~r.framed
FrameCompleted(r) ==
  r.ret = "OK" /\ r.skipsize = 0 /\ r.framed /\ r.size > 0
FatalError(r) == r.ret = "ERROR" /\ r.skipsize = 0 /\ ~r.framed

OutcomesOf(r) ==
  { o \in {"need", "skip", "frame", "fatal"} :
      \/ o = "need" /\ NeedMoreInput(r)
      \/ o = "skip" /\ GarbageSkip(r)
      \/ o = "frame" /\ FrameCompleted(r)
      \/ o = "fatal" /\ FatalError(r) }

\* C14: every call has exactly one of four outcomes, and the base class
\* sees it as such: more input needed (nothing dropped, no frame), garbage
\* skipped (skipsize > 0 bytes dropped, no frame), a frame finished (its
\* size taken off the front, no skip), or GST_FLOW_ERROR (nothing dropped,
\* no frame).
C14_OneOutcomePerCall ==
  [][ Avail >= need
      => /\ Cardinality(OutcomesOf(ThisCall)) = 1
         /\ last'.ret = ThisCall.ret
         /\ last'.skipsize = ThisCall.skipsize
         /\ last'.framed = ThisCall.framed
         /\ NeedMoreInput(ThisCall) \/ FatalError(ThisCall)
            => out' = out /\ consumed' = consumed /\ skipped' = skipped
         /\ GarbageSkip(ThisCall)
            => /\ out' = out /\ skipped' = skipped + ThisCall.skipsize
               /\ consumed' = consumed + ThisCall.skipsize
         /\ FrameCompleted(ThisCall)
            => /\ Len(out') = Len(out) + 1 /\ skipped' = skipped
               /\ out'[Len(out')].size = ThisCall.size
               /\ consumed' = consumed + ThisCall.size ]_vars

\* a run with all three successful outcomes: garbage was skipped, calls
\* waited for more input, and the frame has just been finished
C14_Witness ==
  /\ input = [lead |-> <<17, 255>>, frames |-> <<"J">>]
  /\ chains = 2
  /\ skipped = 2
  /\ last.op = "call" /\ last.framed /\ last.skipsize = 0
  /\ Len(out) = 1
  /\ consumed = Len(stream)

(***************************************************************************)
(* C15                                                                     *)
(***************************************************************************)
\* C15: a frame in which a JFIF APP0 comes before a three component SOF
\* whose sampling factors are h = (2, 1, 1), v = (1, 1, 1) is pushed
\* downstream with colorspace sYUV and sampling YCbCr-4:2:2, whatever the
\* component identifiers are.
C15_JfifThreeComponents422 ==
  \A k \in 1..Len(out) :
    (\E i \in Where(FrameSegs(out[k]), {"APP0"}) :
       \E j \in Where(FrameSegs(out[k]), {"SOF3"}) : i < j)
    => /\ out[k].caps.colorspace = "YUV"
       /\ out[k].caps.sampling = "YBR422"

C15_Witness ==
  /\ Done
  /\ input.segs = Framed(<<"APP0", "SOF3", "SOS">>)
  /\ Len(out) = 1
  /\ ~out[1].invalid
  /\ out[1].caps.width = 4 /\ out[1].caps.height = 2
  /\ out[1].caps.sof_marker = 1
  /\ out[1].caps.colorspace = "YUV"
  /\ out[1].caps.sampling = "YBR422"

(***************************************************************************)
(* C16                                                                     *)
(***************************************************************************)
\* C16: a four component SOF resolves to CMYK when the frame has no Adobe
\* header; with an Adobe header it resolves to CMYK for transform 0 and to
\* YCCK for transform 2 and for every other transform; a JFIF header makes
\* no difference.
C16_FourComponents ==
  (last.op = "sof" /\ Len(input.comps) = 4)
  => /\ last.ret = "OK"
     /\ parse.colorspace =
          (IF input.adobe < 0 THEN "CMYK"
           ELSE IF input.adobe = 0 THEN "CMYK"
           ELSE IF input.adobe = 2 THEN "YCCK"
           ELSE "YCCK")

\* JFIF and Adobe headers, a transform that is neither 0 nor 2
C16_Witness ==
  /\ last.op = "sof"
  /\ Len(input.comps) = 4
  /\ input.jfif /\ input.adobe = 3
  /\ GST_JPEG_PARSER_STATE_GOT_JFIF \in parse.state
  /\ GST_JPEG_PARSER_STATE_GOT_ADOBE \in parse.state
  /\ parse.adobe_transform = 3
  /\ parse.colorspace = "YCCK"

(***************************************************************************)
(* C17                                                                     *)
(***************************************************************************)
\* the sampling that subsampling_map holds for the SOF of the stream
TableLookup ==
  yuv_sampling(gst_jpeg_segment_parse_frame_header(stream, FirstSeg(stream)))

CompIdsOf(comps) == [k \in 1..Len(comps) |-> comps[k].id]

\* C17: a three component SOF resolves by the first rule that applies:
\* with a JFIF header, sYUV and the table's sampling (Adobe header or not);
\* else with an Adobe header, sRGB / RGB for transform 0 and sYUV and the
\* table's sampling for every other transform; else by the identifiers:
\* (1, 2, 3) gives sYUV and the table's sampling, ('R', 'G', 'B') gives
\* sRGB / RGB, anything else sYUV and the table's sampling.
C17_ThreeComponents ==
  (last.op = "sof" /\ Len(input.comps) = 3)
  => /\ last.ret = "OK"
     /\ <<parse.colorspace, parse.sampling>> =
          (IF input.jfif THEN <<"YUV", TableLookup>>
           ELSE IF input.adobe >= 0
                THEN IF input.adobe = 0 THEN <<"RGB", "RGB">>
                     ELSE <<"YUV", TableLookup>>
           ELSE IF CompIdsOf(input.comps) = <<1, 2, 3>>
                THEN <<"YUV", TableLookup>>
           ELSE IF CompIdsOf(input.comps) = <<82, 71, 66>>
                THEN <<"RGB", "RGB">>
           ELSE <<"YUV", TableLookup>>)

\* a JFIF header wins over an Adobe header with transform 0 and over the
\* identifiers 'R', 'G', 'B'
C17_Witness ==
  /\ last.op = "sof"
  /\ CompIdsOf(input.comps) = <<82, 71, 66>>
  /\ input.jfif /\ input.adobe = 0
  /\ GST_JPEG_PARSER_STATE_GOT_ADOBE \in parse.state
  /\ parse.colorspace = "YUV"
  /\ parse.sampling = "YBR422"

(***************************************************************************)
(* C18                                                                     *)
(***************************************************************************)
FailedToParse == {"Failed to parse com segment", "Failed to parse app0 segment",
                  "Failed to parse app1 segment", "Failed to parse app14 segment"}

InterpretedMarkers == {GST_JPEG_MARKER_COM, GST_JPEG_MARKER_APP0,
                       GST_JPEG_MARKER_APP1, GST_JPEG_MARKER_APP14}

\* the stream is one frame: no SOI or EOI inside, and at most one SOF
OneFrame(segs) ==
  /\ Where(segs, {"SOI"}) = {1}
  /\ Where(segs, {"EOI"}) = {Len(segs)}
  /\ Cardinality(Where(segs, {"SOF", "SOF3"})) <= 1

NotifiedBefore(k) == { j \in 1..(k - 1) : out[j].notified }

SetMax(S) == CHOOSE x \in S : \A y \in S : y <= x

\* C19: the caps are set on the source pad for a frame pushed downstream
\* exactly when they differ from the caps set last (width, height,
\* sof-marker, colorspace, sampling, framerate, pixel-aspect-ratio), the
\* first frame always; frames that all have the same caps cause one
\* notification; the resets at EOI and at a flush do not forget the caps
\* set last.
C19_CapsSetOnChangeOnly ==
  /\ \A k \in 1..Len(out) :
       out[k].notified
       <=> \/ NotifiedBefore(k) = {}
           \/ out[k].caps # out[SetMax(NotifiedBefore(k))].caps
  /\ (out # <<>> /\ \A k \in 1..Len(out) : out[k].caps = out[1].caps)
     => Cardinality({ k \in 1..Len(out) : out[k].notified }) = 1
  /\ (out # <<>>) => parse.prev_caps = <<out[Len(out)].caps>>

\* two frames A with a flush between them: one notification
C19_Witness ==
  /\ Done
  /\ input = [lead |-> <<>>, frames |-> <<"A", "A">>]
  /\ flushes = 1
  /\ Len(out) = 2
  /\ out[1].at = 0 /\ out[2].at = Len(FrameBytes("A"))
  /\ out[1].notified /\ ~out[2].notified
  /\ out[1].caps = out[2].caps

(***************************************************************************)
(* C20                                                                     *)
(***************************************************************************)
ComNames == {"COMa", "COMb", "COMl"}

\* the last COM among the segments fs, when there is one
LastCom(fs) == fs[SetMax(Where(fs, ComNames))]

\* C20: the comment among the tags pushed with a frame is the text of the
\* frame's last COM segment, byte for byte, when that text is valid UTF-8;
\* a frame without a COM segment carries no comment, whatever came before
\* it in the stream.
C20_CommentOfLastCom ==
  \A k \in 1..Len(out) :
    /\ (Where(FrameSegs(out[k]), ComNames) # {}
        /\ IsUtf8(ComText(LastCom(FrameSegs(out[k])))))
       => out[k].tags.comment = ComText(LastCom(FrameSegs(out[k])))
    /\ Where(FrameSegs(out[k]), ComNames) = {}
       => out[k].tags.comment = <<>>

(***************************************************************************)
(* C21                                                                     *)
(***************************************************************************)
\* C21: a call whose buffer cannot be mapped returns GST_FLOW_ERROR and
\* changes no field of the parser (flags, cursor, dimensions, SOF class,
\* densities, tags, previous caps) nor the pending tags; nothing is pushed
\* or dropped, so a call on the same bytes that can be mapped does what it
\* would have done in place of the failed one.
C21_MapFailureChangesNothing ==
  [][ last'.op = "nomap"
      => /\ last'.ret = "ERROR" /\ ~last'.framed /\ last'.skipsize = 0
         /\ parse' = parse
         /\ pending' = pending
         /\ out' = out /\ consumed' = consumed /\ skipped' = skipped
         /\ HandleFrame(parse', pending', Buffer)
              = HandleFrame(parse, pending, Buffer) ]_vars

\* the mapping failed in the middle of frame B, behind its COM and its SOF
C21_Witness ==
  /\ last.op = "nomap" /\ last.ret = "ERROR"
  /\ input = [lead |-> <<>>, frames |-> <<"B">>]
  /\ GST_JPEG_PARSER_STATE_GOT_SOF \in parse.state
  /\ parse.width = 1 /\ parse.height = 3
  /\ parse.tags.comment = <<99>>
  /\ parse.last_offset > 0
  /\ out = <<>>

(***************************************************************************)
(* C22                                                                     *)
(***************************************************************************)
\* the call r ends by dispatching a segment with the marker m
EndsWith(r, m) == r.disp # <<>> /\ LastSeg(r).marker = m

\* the frame pushed last by the step
Pushed == out'[Len(out')]

\* C22: a frame pushed downstream is the bytes from an SOI to the next EOI,
\* both included.  When the EOI is dispatched the buffer starts with the
\* SOI marker, the frame's size is the offset behind the EOI marker, and
\* the frame holds no other SOI or EOI; an SOI found behind other bytes
\* makes the call skip exactly the bytes in front of it.
C22_FrameSpansSoiToEoi ==
  [][ /\ (Avail >= need /\ EndsWith(ThisCall, GST_JPEG_MARKER_EOI))
         => /\ SubSeq(Buffer, 1, 2) = SegSOI
            /\ last'.framed
            /\ Len(out') = Len(out) + 1
            /\ Pushed.at = consumed
            /\ Pushed.size = LastSeg(ThisCall).offset
            /\ SubSeq(Buffer, Pushed.size - 1, Pushed.size) = SegEOI
            /\ consumed' = consumed + Pushed.size
            /\ Where(FrameSegs(Pushed), {"SOI"}) = {1}
            /\ Where(FrameSegs(Pushed), {"EOI"}) = {Len(FrameSegs(Pushed))}
      /\ (Avail >= need /\ EndsWith(ThisCall, GST_JPEG_MARKER_SOI)
          /\ LastSeg(ThisCall).offset > 2)
         => /\ last'.skipsize = LastSeg(ThisCall).offset - 2
            /\ consumed' = consumed + last'.skipsize
            /\ ~last'.framed
            /\ SubSeq(stream, consumed' + 1, consumed' + 2) = SegSOI ]_vars

\* SOI COM SOI SOF EOI: the truncated frame is skipped, the frame pushed
\* starts at the second SOI
C22_Witness ==
  /\ Done
  /\ input.segs = Framed(<<"COMa", "SOI", "SOF">>)
  /\ skipped = Len(SegSOI \o SegBytes("COMa"))
  /\ Len(out) = 1
  /\ out[1].at = skipped
  /\ out[1].size = Len(SegSOI \o SegBytes("SOF") \o SegEOI)
  /\ consumed = Len(stream)

(***************************************************************************)
(* C23                                                                     *)
(***************************************************************************)
\* the bytes of the frame o pushed downstream
FrameOf(o) == Slice(stream, o.at, o.at + o.size)

\* the frames a freshly started parser pushes when given bytes in one buffer
Alone(bytes) == FeedWhole(gst_jpeg_parse_start, NoTags, bytes).out

\* C23: dispatching an SOI clears the tags accumulated before it: the tags
\* pushed with a frame are those a freshly started parser collects from
\* the frame's own bytes, whatever segments came before the frame's SOI.
C23_SoiClearsTags ==
  \A k \in 1..Len(out) :
    /\ Len(Alone(FrameOf(out[k]))) = 1
    /\ out[k].tags = Alone(FrameOf(out[k]))[1].tags

(***************************************************************************)
(* C24                                                                     *)
(***************************************************************************)
\* C24: the flags are those of the segments seen since the last SOI.  Right
\* after a call that skipped up to an SOI no flag but GOT_SOI is set, and a
\* call only returns GST_FLOW_ERROR when the frame at the start of the
\* buffer has a duplicate or malformed SOF of its own, i.e. when a freshly
\* started parser rejects it too.
C24_FlagsSinceSoi ==
  /\ (last.op = "call" /\ last.skipsize > 0
      /\ GST_JPEG_PARSER_STATE_GOT_SOI \in parse.state)
     => parse.state = {GST_JPEG_PARSER_STATE_GOT_SOI}
  /\ (last.op = "call" /\ last.ret = "ERROR")
     => HandleFrame(gst_jpeg_parse_start, NoTags, Buffer).ret = "ERROR"

(***************************************************************************)
(* C25                                                                     *)
(***************************************************************************)
\* the bytes the base class has dropped so far all lie in front of the SOI
SoiKept == consumed <= Len(input.lead)

\* C25: garbage followed by a valid frame, delivered in any chunking in which
\* every call sees at least 2 bytes: the frame goes downstream, and while it
\* has not, no garbage skip has taken a byte of the frame, in particular not
\* the 0xFF of an SOI whose 0xD8 is still to arrive.
C25_GarbageThenFrameAnyChunking ==
  (flushes = 0 /\ input.lead # <<>> /\ AllValid(input))
  => /\ Done => Len(out) = 1
     /\ out = <<>> => SoiKept


(***************************************************************************)
(* C26                                                                     *)
(***************************************************************************)
\* a call in IDLE that has the whole buffer dropped as garbage
IdleSkipsAll(p, r, buf) ==
  /\ GST_JPEG_PARSER_STATE_GOT_SOI \notin p.state
  /\ r.ret = "OK" /\ ~r.framed
  /\ r.skipsize = Len(buf)

\* C26: a call never resumes behind a byte no call has examined: whenever a
\* call in IDLE returns a garbage skip of the whole buffer, the persisted
\* cursor is 0 on return, so that the scan of the next buffer starts at its
\* first byte.
C26_CursorZeroAfterIdleSkip ==
  [][(Avail >= need /\ IdleSkipsAll(parse, ThisCall, Buffer))
     => parse'.last_offset = 0]_vars


(***************************************************************************)
(* C27                                                                     *)
(***************************************************************************)
\* the offsets in the stream at which a segment of the stream starts
SegStarts == { SegStart(input.segs, i) : i \in 1..Len(input.segs) }

\* the number of SOF segments among the segments of the stream
SofCount == Cardinality(Where(input.segs, {"SOF"}))

\* C27: a length-carrying segment that has been dispatched is passed whole,
\* so nothing inside its payload is dispatched: every segment a call
\* dispatches starts where a segment of the stream starts and the cursor is
\* left on such a place; an EOI in a payload does not end the frame (the
\* frame pushed is the whole stream); an APP0 or SOF in a payload sets no
\* flag, no density and no dimension; and GST_FLOW_ERROR is returned only
\* when the stream itself has more than one SOF.
C27_PayloadNeverDispatched ==
  [][ Avail >= need
      => /\ \A i \in 1..Len(ThisCall.disp) :
              consumed + ThisCall.disp[i].offset - 2 \in SegStarts
         /\ last'.ret = "OK" /\ ~last'.framed
            => consumed' + parse'.last_offset \in SegStarts \cup {Len(stream)}
         /\ last'.framed
            => /\ Len(out') = 1
               /\ out'[1].at = 0 /\ out'[1].size = Len(stream)
               /\ out'[1].caps.width = (IF SofCount = 0 THEN -1 ELSE 2)
         /\ GST_JPEG_PARSER_STATE_GOT_JFIF \notin parse'.state
         /\ parse'.tags.hppi = -1
         /\ SofCount = 0 => GST_JPEG_PARSER_STATE_GOT_SOF \notin parse'.state
         /\ last'.ret = "ERROR" => SofCount > 1 ]_vars

C27_Witness ==
  /\ Done
  /\ input.segs = <<"SOI", "COMeoi", "COMsof", "APP1thumb", "EOI">>
  /\ chains > 1
  /\ Len(out) = 1
  /\ out[1].size = Len(stream)
  /\ out[1].tags.comment # <<>>


(***************************************************************************)
(* C28                                                                     *)
(***************************************************************************)
\* the horizontal and the vertical factors of a component table
HFactors(comps) == [k \in 1..Len(comps) |-> comps[k].h]
VFactors(comps) == [k \in 1..Len(comps) |-> comps[k].v]

\* the sampling said to belong to the factors h / v
SaidSampling(h, v) ==
  CASE <<h, v>> \in { <<<<1, 1, 1>>, <<1, 1, 1>>>>, <<<<2, 2, 2>>, <<1, 1, 1>>>>,
                     <<<<3, 3, 3>>, <<1, 1, 1>>>>, <<<<1, 1, 1>>, <<2, 2, 2>>>>,
                     <<<<1, 1, 1>>, <<3, 3, 3>>>> } -> "YBR444"
    [] <<h, v>> \in { <<<<2, 1, 1>>, <<1, 1, 1>>>>, <<<<2, 1, 1>>, <<2, 2, 2>>>>,
                     <<<<4, 2, 2>>, <<1, 1, 1>>>> } -> "YBR422"
    [] <<h, v>> = <<<<2, 1, 1>>, <<2, 1, 1>>>> -> "YBR420"
    [] <<h, v>> = <<<<4, 1, 1>>, <<1, 1, 1>>>> -> "YBR411"
    [] <<h, v>> = <<<<4, 1, 1>>, <<2, 1, 1>>>> -> "YBR410"
    [] OTHER -> "NONE"

\* C28: the subsampling lookup gives YBR444 for the factors (1,1,1)/(1,1,1),
\* (2,2,2)/(1,1,1), (3,3,3)/(1,1,1), (1,1,1)/(2,2,2) and (1,1,1)/(3,3,3),
\* YBR422 for (2,1,1)/(1,1,1), (2,1,1)/(2,2,2) and (4,2,2)/(1,1,1), YBR420
\* for (2,1,1)/(2,1,1), YBR411 for (4,1,1)/(1,1,1), YBR410 for
\* (4,1,1)/(2,1,1), and NONE for every other combination of factors.
C28_SubsamplingLookup ==
  last.op = "sof"
  => /\ last.ret = "OK"
     /\ parse.colorspace = "YUV"
     /\ parse.sampling = SaidSampling(HFactors(input.comps), VFactors(input.comps))

C28_Witness ==
  /\ last.op = "sof"
  /\ HFactors(input.comps) = <<4, 2, 2>>
  /\ VFactors(input.comps) = <<1, 1, 1>>
  /\ parse.sampling = "YBR422"


(***************************************************************************)
(* C29                                                                     *)
(***************************************************************************)
\* the bytes of a frame up to and including its SOF: SOI, the JFIF APP0 (if
\* jfif), the APP14 with the transform adobe (if adobe >= 0), the SOF
UpToSof(jfif, adobe, sof) ==
  SegSOI \o (IF jfif THEN SegAPP0(1, 72, 72) ELSE <<>>)
         \o (IF adobe >= 0 THEN SegAPP14(adobe) ELSE <<>>) \o sof

\* the handler given those bytes by a freshly started parser
HandledUpToSof == FeedWhole(gst_jpeg_parse_start, NoTags,
                            UpToSof(input.jfif, input.adobe, stream))

\* what the handler has recorded of the SOF in the host h
SofRecorded(h) ==
  /\ h.last.ret = "OK"
  /\ GST_JPEG_PARSER_STATE_GOT_SOF \in h.parse.state
  /\ h.parse.width = 4 /\ h.parse.height = 2
  /\ h.parse.colorspace = parse.colorspace
  /\ h.parse.sampling = parse.sampling

\* C29: an SOF with one component is GRAY / GRAYSCALE whether or not JFIF and
\* Adobe headers came before it; an SOF with a component count other than 1,
\* 3 and 4 is parsed successfully, its dimensions are recorded, GOT_SOF is
\* set and no error is returned, and colorspace and sampling are NONE.
C29_GrayAndUnknownComponentCounts ==
  (last.op = "sof" /\ Len(input.comps) \notin {3, 4})
  => /\ last.ret = "OK"
     /\ parse.width = 4 /\ parse.height = 2
     /\ Len(input.comps) = 1
        => parse.colorspace = "GRAY" /\ parse.sampling = "GRAYSCALE"
     /\ Len(input.comps) # 1
        => parse.colorspace = "NONE" /\ parse.sampling = "NONE"
     /\ SofRecorded(HandledUpToSof)

C29_Witness ==
  /\ last.op = "sof"
  /\ Len(input.comps) = 2
  /\ input.jfif /\ input.adobe = 2
  /\ parse.colorspace = "NONE"
  /\ GST_JPEG_PARSER_STATE_GOT_SOF \in HandledUpToSof.parse.state


(***************************************************************************)
(* C30                                                                     *)
(***************************************************************************)
\* C30: a frame of four components whose only APP14 has the "Adobe" prefix
\* and no transform byte has the ADOBE flag set and resolves to the
\* colorspace YCCK.
C30_AdobeWithoutTransformIsYcck ==
  (Len(input.comps) = 4 /\ input.adobe = -1)
  => /\ GST_JPEG_PARSER_STATE_GOT_ADOBE \in parse.state
     /\ last.op = "sof" => parse.colorspace = "YCCK"


(***************************************************************************)
(* C31                                                                     *)
(***************************************************************************)
\* the segment dispatched, and the state it was dispatched in
TheSeg == FirstSeg(stream)
Before == BeforeSof(input.jfif, input.adobe)

\* the identifier of the segment, or <<>> when no NUL ends it
TheId ==
  IF NulAt(stream, TheSeg, 2) < 0 THEN <<>>
  ELSE IdString(stream, TheSeg, 2, NulAt(stream, TheSeg, 2))

\* C31: once an APP14 segment of declared size 12 or more whose identifier
\* has the prefix "Adobe" has been dispatched the ADOBE flag is set, whether
\* or not the version and flags bytes and the transform byte are there.
C31_AdobePrefixSetsFlag ==
  (last.op = "interp" /\ TheSeg.marker = GST_JPEG_MARKER_APP14
   /\ TheSeg.size >= 12 /\ HasPrefix(TheId, Str_Adobe))
  => GST_JPEG_PARSER_STATE_GOT_ADOBE \in parse.state


(***************************************************************************)
(* C32                                                                     *)
(***************************************************************************)
\* the segment is below the minimum size of its interpreter
Undersized(seg) ==
  \/ seg.marker = GST_JPEG_MARKER_APP0 /\ seg.size < 14
  \/ seg.marker = GST_JPEG_MARKER_APP14 /\ seg.size < 12

\* C32: an APP0 segment of declared size below 14 and an APP14 segment of
\* declared size below 12 are rejected as malformed (the interpreter's
\* warning is posted) and change nothing: flags, densities, Adobe transform
\* and tags are what they were before the segment.
C32_UndersizedRejectedUnchanged ==
  (last.op = "interp" /\ Undersized(TheSeg))
  => /\ last.warn \in {{"Failed to parse app0 segment"},
                       {"Failed to parse app14 segment"}}
     /\ parse = Before

C32_Witness ==
  /\ last.op = "interp"
  /\ TheSeg.marker = GST_JPEG_MARKER_APP0 /\ TheSeg.size = 13
  /\ TheId = Str_JFIF
  /\ ~input.jfif
  /\ last.warn # {}


(***************************************************************************)
(* C33                                                                     *)
(***************************************************************************)
\* C33: when the interpreter of a COM, APP0, APP1 or APP14 segment reports a
\* failure, the warning is the only effect: flags (GOT_JFIF and GOT_ADOBE
\* among them), densities, Adobe transform and tags are what they were
\* before the segment was dispatched.
C33_FailureOnlyWarns ==
  (last.op = "interp" /\ last.warn # {}) => parse = Before


(***************************************************************************)
(* C34                                                                     *)
(***************************************************************************)
\* the segments fs without the APP0 and APP14 segments behind the first SOF
RECURSIVE Pruned(_, _)
Pruned(fs, sofSeen) ==
  IF fs = <<>> THEN <<>>
  ELSE IF sofSeen /\ Head(fs) \in {"APP0", "APP0x", "APP14x"}
       THEN Pruned(Tail(fs), sofSeen)
       ELSE <<Head(fs)>> \o Pruned(Tail(fs), sofSeen \/ Head(fs) \in {"SOF", "SOF3"})

\* colorspace and sampling of the caps of the frame o
ColorOf(o) == <<o.caps.colorspace, o.caps.sampling>>

\* C34: colorspace and sampling of a frame pushed downstream are those its
\* SOF resolves from the JFIF and Adobe headers in front of it in the same
\* frame: for a frame with an SOF they are what a freshly started parser
\* gives for the frame's own segments with the APP0 and APP14 segments
\* behind the SOF left out.
C34_ColorFromHeadersBeforeSof ==
  \A k \in 1..Len(out) :
    Where(FrameSegs(out[k]), {"SOF", "SOF3"}) # {}
    => /\ Len(Alone(EncodeSegs(Pruned(FrameSegs(out[k]), FALSE)))) = 1
       /\ ColorOf(out[k]) =
            ColorOf(Alone(EncodeSegs(Pruned(FrameSegs(out[k]), FALSE)))[1])


(***************************************************************************)
(* C35                                                                     *)
(***************************************************************************)
IsNoTable(s) == s \notin {"DHT", "DAC"}

\* the run of a freshly started parser on the stream without its DHT and DAC
\* segments, pushed in one buffer
Untabled ==
  FeedWhole(gst_jpeg_parse_start, NoTags,
            EncodeSegs(SelectSeq(input.segs, IsNoTable)))

\* caps, tags and validity of the frames pushed
Shown(frames) ==
  [k \in 1..Len(frames) |->
     [caps |-> frames[k].caps, tags |-> frames[k].tags,
      invalid |-> frames[k].invalid]]

\* C35: DHT and DAC segments are passed over without effect, before and
\* behind the frame's SOF: they set neither GOT_SOF nor the SOF class, change
\* no dimension and no colorspace and raise no duplicate SOF error, so that
\* the run ends as it ends on the stream without them (same return value,
\* same frames but for their size, same parser fields), and the SOF class is
\* never 4 or 12.
C35_TablesPassThrough ==
  /\ parse.sof \notin {4, 12}
  /\ \A k \in 1..Len(out) : out[k].caps.sof_marker \notin {4, 12}
  /\ Done => /\ last.ret = Untabled.last.ret
             /\ Shown(out) = Shown(Untabled.out)
             /\ parse = Untabled.parse

C35_Witness ==
  /\ Done
  /\ input.segs = <<"SOI", "DHT", "SOF", "DAC", "EOI">>
  /\ chains > 1
  /\ Len(out) = 1
  /\ out[1].caps.sof_marker = 0
  /\ out[1].caps.width = 2


(***************************************************************************)
(* C36                                                                     *)
(***************************************************************************)
\* the positions in the call r at which an SOS was dispatched
SosAt(r) ==
  { i \in 1..Len(r.disp) : r.disp[i].marker = GST_JPEG_MARKER_SOS }

\* the call r, started with the fields p, dispatched an SOS while GOT_SOF
\* was not set
SosBeforeSof(p, r) ==
  /\ GST_JPEG_PARSER_STATE_GOT_SOF \notin p.state
  /\ \E i \in SosAt(r) : \A j \in 1..(i - 1) : ~IsSof(r.disp[j].marker)

\* C36: an SOS segment always sets GOT_SOS and never aborts the frame,
\* whether or not GOT_SOF is set.  A call that dispatched an SOS returns
\* GST_FLOW_ERROR only for an SOF it rejected; when it leaves the frame open
\* GOT_SOS is set; when it reaches the EOI the frame is pushed, and counted
\* as having its SOS; and the warning "SOS marker without SOF one", which
\* is not fatal, is posted exactly when an SOS was dispatched without SOF.
C36_SosAlwaysCounts ==
  [][ (Avail >= need /\ SosAt(ThisCall) # {})
      => /\ last'.ret = "ERROR" => SofRejected(parse, ThisCall, Buffer)
         /\ (last'.ret = "OK" /\ ~last'.framed)
            => GST_JPEG_PARSER_STATE_GOT_SOS \in parse'.state
         /\ LastSeg(ThisCall).marker = GST_JPEG_MARKER_EOI
            => /\ last'.ret = "OK" /\ last'.framed
               /\ Len(out') = Len(out) + 1
               /\ out'[Len(out')].invalid
                    = (Where(FrameSegs(out'[Len(out')]), {"SOF", "SOF3"}) = {})
         /\ ("SOS marker without SOF one" \in last'.warn)
              = SosBeforeSof(parse, ThisCall) ]_vars

C36_Witness ==
  /\ Done
  /\ input.segs = <<"SOI", "SOS", "SOF", "EOI">>
  /\ chains > 1
  /\ "SOS marker without SOF one" \in last.warn
  /\ Len(out) = 1
  /\ ~out[1].invalid


(***************************************************************************)
(* C37                                                                     *)
(***************************************************************************)
\* the first JFIF APP0 among the segments fs, or "none"
FirstJfif(fs) ==
  IF Where(fs, JfifNames \ {"SOI"}) = {} THEN "none"
  ELSE fs[SetMin(Where(fs, JfifNames \ {"SOI"}))]

\* the pixel-aspect-ratio and the density tags (1/100 ppi) said to come with
\* a frame whose first JFIF APP0 is a
SaidRatio(a) == IF a = "APP0" THEN <<2, 1>> ELSE <<>>
SaidDensity(a) ==
  CASE a = "APP0u1" -> <<300, 200>>
    [] a = "APP0u2" -> <<762, 508>>
    [] OTHER -> <<-1, -1>>

\* C37: the frame pushed downstream has a pixel-aspect-ratio exactly when
\* the first JFIF APP0 of the frame declared unit 0 with both densities
\* non-zero, and it is then x density / y density; unit 1 and unit 2 give
\* the pair of density tags and no pixel-aspect-ratio; a second JFIF APP0 of
\* the frame is reported as a failure that does not abort the frame, and
\* changes neither.
C37_RatioFromFirstJfif ==
  /\ \A k \in 1..Len(out) :
       /\ out[k].caps.pixel_aspect_ratio = SaidRatio(FirstJfif(FrameSegs(out[k])))
       /\ <<out[k].tags.hppi, out[k].tags.vppi>>
            = SaidDensity(FirstJfif(FrameSegs(out[k])))
  /\ (Done /\ chains = 1 /\ Where(input.segs, {"SOI"}) = {1}
      /\ Cardinality(Where(input.segs, JfifNames \ {"SOI"})) > 1)
     => /\ Len(out) = 1
        /\ "Failed to parse app0 segment" \in last.warn


(***************************************************************************)
(* C38                                                                     *)
(***************************************************************************)
\* the segment is an APP1 with an identifier that no entry of TagMap matches
UnmatchedApp1 ==
  /\ TheSeg.marker = GST_JPEG_MARKER_APP1
  /\ NulAt(stream, TheSeg, 2) >= 0
  /\ ~HasSuffix(TheId, Str_Exif)
  /\ ~HasSuffix(TheId, Str_XMP)

\* C38: an APP1 segment whose identifier ends neither in "Exif" nor in the
\* XMP namespace is accepted without effect: no warning is posted, and
\* flags, tags, dimensions and every other field are what they were.
C38_UnmatchedApp1Ignored ==
  (last.op = "interp" /\ UnmatchedApp1) => last.warn = {} /\ parse = Before

C38_Witness ==
  /\ last.op = "interp"
  /\ stream = SegAPP1ExifX
  /\ input.jfif /\ input.adobe = 1
  /\ last.warn = {}
  /\ parse.tags.exif = <<>>


(***************************************************************************)
(* C39                                                                     *)
(***************************************************************************)
\* the positions in the call r of the SOF segments it accepted: every SOF
\* it dispatched but the one it returned GST_FLOW_ERROR for
AcceptedIn(r) ==
  { i \in 1..Len(r.disp) :
      /\ IsSof(r.disp[i].marker)
      /\ ~(i = Len(r.disp) /\ r.ret = "ERROR") }

\* the call r ran into gst_jpeg_parse_reset: it pushed the frame at an EOI
\* or it rejected an SOF
EndsInReset(r) ==
  /\ Len(r.disp) > 0
  /\ \/ LastSeg(r).marker = GST_JPEG_MARKER_EOI
     \/ r.ret = "ERROR"

\* the SOFs accepted since the last reset, as the fields p tell it
SofHeld(p) == IF GST_JPEG_PARSER_STATE_GOT_SOF \in p.state THEN 1 ELSE 0

\* GOT_SOF and the SOF class go together, and the class is in 0..15
SofClassed(p) ==
  /\ p.sof \in -1..15
  /\ (GST_JPEG_PARSER_STATE_GOT_SOF \in p.state) = (p.sof >= 0)

\* a call r that starts with the fields p and ends with the fields q
SofStep(p, r, q) ==
  /\ SofHeld(p) + Cardinality(AcceptedIn(r)) <= 1
  /\ EndsInReset(r) => SofHeld(q) = 0 /\ q.sof = -1
  /\ (~EndsInReset(r) /\ AcceptedIn(r) # {})
       => /\ SofHeld(q) = 1
          /\ q.sof = r.disp[SetMin(AcceptedIn(r))].marker - 192
  /\ (~EndsInReset(r) /\ AcceptedIn(r) = {})
       => SofHeld(q) = SofHeld(p) /\ q.sof = p.sof

\* C39: between calls GOT_SOF is set exactly when the SOF class is set, the
\* class being in 0..15 and the accepted SOF's marker minus 0xC0; and no
\* call accepts an SOF while one is held, so that at most one SOF is
\* accepted between two resets (EOI, rejected SOF, FLUSH_STOP).
C39_SofFlagAndClass ==
  /\ []SofClassed(parse)
  /\ [][ /\ Avail >= need => SofStep(parse, ThisCall, parse')
         /\ last'.op = "flush" => SofHeld(parse') = 0 /\ parse'.sof = -1 ]_vars

C39_Witness ==
  /\ input.segs = <<"SOI", "SOF3", "SOF", "EOI">>
  /\ delivered = Len(SegSOI \o SegBytes("SOF3"))
  /\ Avail < need
  /\ last.op = "call"
  /\ GST_JPEG_PARSER_STATE_GOT_SOF \in parse.state
  /\ parse.sof = 1


(***************************************************************************)
(* C40                                                                     *)
(***************************************************************************)
\* one iteration of the loop, entered with the scan offset o < Len(buf):
\* when the scanner finds a segment, the offset the iteration goes on with
\* (seg.offset for a segment skipped in idle, seg.offset + seg.size behind
\* a dispatched one) is greater than o, and the cursor it leaves for an
\* incomplete segment, seg.offset - 2, is not below o
IterationAdvances(buf, o) ==
  gst_jpeg_parse(buf, o).found
    => /\ gst_jpeg_parse(buf, o).offset > o
       /\ gst_jpeg_parse(buf, o).offset + gst_jpeg_parse(buf, o).size > o
       /\ gst_jpeg_parse(buf, o).offset - 2 >= o

\* the offsets a call with the fields p on the buffer buf may scan from
ScanOffsets(p, buf) == ResumeOffset(p.last_offset) .. (Len(buf) - 1)

\* C40: in every call every loop iteration leaves the loop or goes on with
\* a greater scan offset, no back-off goes below 0, and the cursor the call
\* leaves lies within the buffer it was called with:
\* 0 <= last_offset <= buffer length.
C40_LoopAdvancesCursorInBuffer ==
  [][ Avail >= need
      => /\ \A o \in ScanOffsets(parse, Buffer) : IterationAdvances(Buffer, o)
         /\ ResumeOffset(parse.last_offset) >= 0
         /\ parse'.last_offset >= 0
         /\ parse'.last_offset <= Len(Buffer) ]_vars



====
